---- MODULE Spec2Model ----
(***************************************************************************)
(* A model of the incremental synchronisation pipeline of atp-analytics:   *)
(* the retrying fetcher (backend/scraper/http_utils.py), the merge engine  *)
(* and dataset store (backend/storage/s3_data_store.py) and the sync       *)
(* orchestrators (backend/scraper/updater.py).                             *)
(*                                                                         *)
(* The specifications of the module:                                       *)
(*   SpecMerge  upsert_data applied to bounded tables                      *)
(*   SpecFetch  one call of fetch_with_retry, request by request           *)
(*   Spec       sync runs executed one after the other (CLI, scheduler)    *)
(*   SpecAdmin  sync runs started by the admin endpoints on worker threads *)
(*   SpecTournaments  one tournament sync, scrape then merge               *)
(*   SpecRead  the read endpoints after at most one ranking sync           *)
(*   SpecDateRange  _parse_date_range applied to bounded texts             *)
(*   SpecExtractInt  _extract_int applied to bounded cells                 *)
(*   SpecBioFetch  one call of scrape_player, render by render             *)
(*   SpecRepeatRankings  ranking syncs repeated against one site           *)
(*   SpecRepeatBio  bio syncs repeated against one site                    *)
(*   SpecJobs  the admin job registry and its lookups                      *)
(*   SpecJobsFair  SpecJobs where every background task runs               *)
(***************************************************************************)
EXTENDS Integers, Sequences, FiniteSets, TLC

VARIABLES
    \* ---- upsert_data (SpecMerge)
    m_pc,          \* "in" | "merged" | "remerged"
    m_existing,    \* existing_df
    m_new,         \* new_df
    m_cols,        \* unique_cols
    m_out,         \* upsert_data(new_df, existing_df, unique_cols)
    m_out2,        \* upsert_data(new_df, m_out, unique_cols)
    \* ---- fetch_with_retry (SpecFetch)
    f_pc,          \* "idle" | "request" | "sleep" | "done"
    f_max_retries, \* the max_retries argument
    f_attempt,     \* the loop variable attempt
    f_outcomes,    \* what each httpx.get so far ended in, in order
    f_sleeps,      \* the argument of each time.sleep so far, in order
    f_wait,        \* wait_time of the pending time.sleep
    f_result,      \* "none yet" | "response" | "None"
    \* ---- dataset store and sync runs (Spec, SpecAdmin)
    store,         \* file name -> [exists, rows]
    run,           \* thread -> the frame of the sync run it executes
    runs,          \* sync runs started so far
    \* ---- tournament sync (SpecTournaments)
    t_store,       \* tournaments.parquet: [exists, rows], rows as a set
    t_run,         \* the frame of the tournament sync
    t_runs,        \* tournament syncs started so far
    \* ---- read endpoints (SpecRead)
    r_resp,        \* the response of the last read request
    \* ---- _parse_date_range (SpecDateRange)
    d_pc,          \* "in" | "parsed"
    d_shape,       \* the parts the text was written from
    d_text,        \* date_str
    d_out,         \* _parse_date_range(date_str)
    \* ---- _extract_int (SpecExtractInt)
    x_pc,          \* "in" | "done"
    x_cell,        \* cell: None, or the text of the Tag
    x_out,         \* what _extract_int(cell) returned or raised
    \* ---- scrape_player (SpecBioFetch)
    b_pc,          \* "idle" | "render" | "sleep" | "done"
    b_max_retries, \* the max_retries argument
    b_attempt,     \* the loop variable attempt
    b_outcomes,    \* what each page render so far ended in, in order
    b_sleeps,      \* the argument of each time.sleep so far, in order
    b_result,      \* the dict returned
    \* ---- the remote site under repeated runs (SpecRepeatRankings, SpecRepeatBio)
    w_site,        \* what the site lists and gives, and the caller's fixed cap
    \* ---- admin job registry (SpecJobs)
    j_clock,        \* datetime.now(), in whole seconds
    j_tasks,        \* the accepted update requests, each with its run_update
    active_jobs,    \* admin.py active_jobs: job_id -> entry
    completed_jobs, \* admin.py completed_jobs
    j_lookup        \* the answer of the last GET /jobs/{job_id}

vars == <<m_pc, m_existing, m_new, m_cols, m_out, m_out2,
          f_pc, f_max_retries, f_attempt, f_outcomes, f_sleeps, f_wait, f_result,
          store, run, runs, t_store, t_run, t_runs,
          r_resp, d_pc, d_shape, d_text, d_out, x_pc, x_cell, x_out,
          b_pc, b_max_retries, b_attempt, b_outcomes, b_sleeps, b_result,
          w_site, j_clock, j_tasks, active_jobs, completed_jobs, j_lookup>>

mergeVars == <<m_pc, m_existing, m_new, m_cols, m_out, m_out2>>
fetchVars == <<f_pc, f_max_retries, f_attempt, f_outcomes, f_sleeps, f_wait, f_result>>
syncVars  == <<store, run, runs>>
tourVars  == <<t_store, t_run, t_runs>>
readVars  == <<r_resp>>
dateVars  == <<d_pc, d_shape, d_text, d_out>>
intVars   == <<x_pc, x_cell, x_out>>
bioVars   == <<b_pc, b_max_retries, b_attempt, b_outcomes, b_sleeps, b_result>>
siteVars  == <<w_site>>
jobVars   == <<j_clock, j_tasks, active_jobs, completed_jobs, j_lookup>>
restVars  == <<readVars, dateVars, intVars, bioVars, siteVars, jobVars>>

(***************************************************************************)
(* Values.  A nullable cell is a sequence of length at most one: None is   *)
(* the null cell, Some(v) the cell holding v.                              *)
(***************************************************************************)
None == <<>>
Some(v) == <<v>>
IsNull(c) == c = None

\* Python truthiness of a str | None value: None and "" are falsy.
Truthy(c) == c # None /\ c[1] # ""

Range(s) == {s[i] : i \in 1..Len(s)}

RECURSIVE SeqsUpTo(_, _)
\* All sequences over S of length at most n.
SeqsUpTo(S, n) ==
    IF n = 0 THEN {<<>>}
    ELSE LET shorter == SeqsUpTo(S, n - 1)
         IN  shorter \cup {Append(s, x) : s \in {t \in shorter : Len(t) = n - 1}, x \in S}

\* The orders in which the rows of table t can be laid out.
Reorderings(t) ==
    LET n == Len(t)
        perms == {p \in [1..n -> 1..n] : \A i, j \in 1..n : i # j => p[i] # p[j]}
    IN  {[i \in 1..n |-> t[p[i]]] : p \in perms}

SelectSeq2(s, Keep(_, _)) ==
    \* the subsequence of the positions i of s with Keep(i, s[i])
    LET F[i \in 0..Len(s)] ==
            IF i = 0 THEN <<>>
            ELSE IF Keep(i, s[i]) THEN Append(F[i - 1], s[i]) ELSE F[i - 1]
    IN  F[Len(s)]

(***************************************************************************)
(* Merge engine: backend/storage/s3_data_store.py (and the identical       *)
(* backend/storage/data_store.py).  A table is a sequence of rows, a row a *)
(* record column -> cell.                                                  *)
(***************************************************************************)
\* The cells of row r under the columns cols: the key polars compares in
\* unique(subset=cols).  A null cell is a key value like any other.
KeyOf(r, cols) == [i \in 1..Len(cols) |-> r[cols[i]]]

KeysOf(t, cols) == {KeyOf(r, cols) : r \in Range(t)}

\* DataFrame.unique(subset=cols, keep="first"): the bug of keeping the stored row.
unique_keep_first(t, cols) ==
    SelectSeq2(t, LAMBDA i, r : \A j \in 1..(i - 1) : KeyOf(t[j], cols) # KeyOf(r, cols))

\* DataFrame.unique(subset=cols, keep="last"), rows in their order of appearance.
unique_keep_last(t, cols) ==
    SelectSeq2(t, LAMBDA i, r : \A j \in (i + 1)..Len(t) : KeyOf(t[j], cols) # KeyOf(r, cols))

\* upsert_data with keep="first" in place of keep="last".
upsert_data_keep_first(new_df, existing_df, unique_cols) ==
    unique_keep_first(existing_df \o new_df, unique_cols)

\* upsert_data that concatenates and forgets to deduplicate.
upsert_data_no_dedup(new_df, existing_df, unique_cols) ==
    existing_df \o new_df

\* pl.concat([existing_df, new_df]).unique(subset=unique_cols, keep="last")
upsert_data(new_df, existing_df, unique_cols) ==
    unique_keep_last(existing_df \o new_df, unique_cols)

\* unique() runs with maintain_order=False: the rows come back in any order.
UpsertOutcomes(new_df, existing_df, unique_cols) ==
    Reorderings(upsert_data(new_df, existing_df, unique_cols))

(***************************************************************************)
(* SpecMerge: upsert_data on every pair of tables of at most MaxMergeRows  *)
(* rows over two key columns and a payload column.                         *)
(***************************************************************************)
MaxMergeRows == 2

\* Rows with a null key cell, and rows that agree on k1 and differ on k2.
MergeRow ==
    [k1 : {None, Some("a")}, k2 : {1}, v : {"x", "y"}]
        \cup [k1 : {Some("a")}, k2 : {2}, v : {"x", "y"}]

MergeTables == SeqsUpTo(MergeRow, MaxMergeRows)

\* The unique_cols the callers pass: one column, or a composite key.
MergeKeyChoices == {<<"k1">>, <<"k1", "k2">>}

MergeIdle ==
    /\ m_pc = "in" /\ m_existing = <<>> /\ m_new = <<>>
    /\ m_cols = <<"k1">> /\ m_out = <<>> /\ m_out2 = <<>>

InitMergeVars ==
    /\ m_pc = "in"
    /\ m_existing \in MergeTables
    /\ m_new \in MergeTables
    /\ m_cols \in MergeKeyChoices
    /\ m_out = <<>>
    /\ m_out2 = <<>>

\* merged = upsert_data(new_df, existing_df, unique_cols)
Merge ==
    /\ m_pc = "in"
    /\ m_out' \in UpsertOutcomes(m_new, m_existing, m_cols)
    /\ m_pc' = "merged"
    /\ UNCHANGED <<m_existing, m_new, m_cols, m_out2>>
    /\ UNCHANGED <<fetchVars, syncVars, tourVars, restVars>>

\* the same new_df merged into the table that already contains it
Remerge ==
    /\ m_pc = "merged"
    /\ m_out2' \in UpsertOutcomes(m_new, m_out, m_cols)
    /\ m_pc' = "remerged"
    /\ UNCHANGED <<m_existing, m_new, m_cols, m_out>>
    /\ UNCHANGED <<fetchVars, syncVars, tourVars, restVars>>

(***************************************************************************)
(* Fetcher: backend/scraper/http_utils.py, fetch_with_retry.  One action   *)
(* per httpx.get and per time.sleep; f_outcomes and f_sleeps record them.  *)
(***************************************************************************)
MAX_RETRIES == 3

RETRY_BACKOFF_BASE == 2

\* The largest max_retries argument explored.
MaxRetriesArg == 4

\* How one httpx.get followed by raise_for_status can end.
FetchOutcomes == {"ok", "ReadTimeout", "ConnectTimeout", "HTTPStatusError", "Exception"}

RECURSIVE Pow(_, _)
Pow(b, e) == IF e = 0 THEN 1 ELSE b * Pow(b, e - 1)

\* A retry policy that treats an HTTP status error as transient too.
IsTimeoutOrStatus(outcome) == outcome \in {"ReadTimeout", "ConnectTimeout", "HTTPStatusError"}

\* except (httpx.ReadTimeout, httpx.ConnectTimeout)
IsTimeout(outcome) == outcome \in {"ReadTimeout", "ConnectTimeout"}

\* A backoff that is linear in the attempt index.
wait_time_linear(attempt) == RETRY_BACKOFF_BASE * attempt

\* wait_time = RETRY_BACKOFF_BASE ** attempt
wait_time(attempt) == Pow(RETRY_BACKOFF_BASE, attempt)

\* if attempt < max_retries - 1
attempts_remain(attempt, max_retries) == attempt < max_retries - 1

FetchIdle ==
    /\ f_pc = "idle" /\ f_max_retries = MAX_RETRIES /\ f_attempt = 0
    /\ f_outcomes = <<>> /\ f_sleeps = <<>> /\ f_wait = 0 /\ f_result = "none yet"

\* fetch_with_retry(url, max_retries): enter the loop over range(max_retries)
FetchCall ==
    /\ f_pc = "idle"
    /\ \E n \in 1..MaxRetriesArg : f_max_retries' = n
    /\ f_attempt' = 0
    /\ f_pc' = "request"
    /\ UNCHANGED <<f_outcomes, f_sleeps, f_wait, f_result>>
    /\ UNCHANGED <<mergeVars, syncVars, tourVars, restVars>>

\* one iteration of the loop up to its return or its time.sleep
FetchRequest ==
    /\ f_pc = "request"
    /\ \E outcome \in FetchOutcomes :
        /\ f_outcomes' = Append(f_outcomes, outcome)
        /\ IF outcome = "ok"
           THEN /\ f_result' = "response"
                /\ f_pc' = "done"
                /\ UNCHANGED f_wait
           ELSE IF IsTimeout(outcome) /\ attempts_remain(f_attempt, f_max_retries)
           THEN /\ f_wait' = wait_time(f_attempt)
                /\ f_pc' = "sleep"
                /\ UNCHANGED f_result
           ELSE /\ f_result' = "None"
                /\ f_pc' = "done"
                /\ UNCHANGED f_wait
    /\ UNCHANGED <<f_max_retries, f_attempt, f_sleeps>>
    /\ UNCHANGED <<mergeVars, syncVars, tourVars, restVars>>

\* time.sleep(wait_time), then the next value of attempt
FetchSleep ==
    /\ f_pc = "sleep"
    /\ f_sleeps' = Append(f_sleeps, f_wait)
    /\ f_attempt' = f_attempt + 1
    /\ f_pc' = IF f_attempt + 1 < f_max_retries THEN "request" ELSE "done"
    /\ f_result' = IF f_attempt + 1 < f_max_retries THEN f_result ELSE "None"
    /\ UNCHANGED <<f_max_retries, f_outcomes, f_wait>>
    /\ UNCHANGED <<mergeVars, syncVars, tourVars, restVars>>

(***************************************************************************)
(* Dataset store: backend/storage/s3_data_store.py.  A file is absent      *)
(* (exists = FALSE) until its first save.                                  *)
(***************************************************************************)
RankingTypes == {"singles", "doubles"}

\* f"{ranking_type}_rankings.parquet"
RankingsFile(ranking_type) ==
    IF ranking_type = "singles" THEN "singles_rankings.parquet" ELSE "doubles_rankings.parquet"

PlayersFile == "players.parquet"

Files == {RankingsFile(t) : t \in RankingTypes} \cup {PlayersFile}

\* config.py BIO_COLUMNS
BIO_COLUMNS ==
    <<"birthdate", "weight_kg", "height_cm", "turned_pro",
      "country", "birthplace", "handedness", "backhand", "coach">>

\* schemas.py PLAYERS_SCHEMA, its column names
PLAYERS_SCHEMA == <<"player_id", "player_name">> \o BIO_COLUMNS

\* load_data: the rows of the file; the caller tests Exists first (FileNotFoundError)
load_data(filename) == store[filename].rows

Exists(filename) == store[filename].exists

\* load_data_or_empty: the rows, or the empty table of the schema when absent
load_data_or_empty(filename) == IF Exists(filename) THEN load_data(filename) ELSE <<>>

\* save_data: the store after df was written under filename
save_data(df, filename) == [store EXCEPT ![filename] = [exists |-> TRUE, rows |-> df]]

\* _ensure_schema_columns on one row: absent schema columns become null
ensure_schema_columns(r) ==
    [c \in Range(PLAYERS_SCHEMA) |-> IF c \in DOMAIN r THEN r[c] ELSE None]

(***************************************************************************)
(* Ranking parser: backend/scraper/ranking_scraper.py.  A ranking page is  *)
(* what fetch + BeautifulSoup give for one date: no table at all (the      *)
(* fetch failed, or the markup has no desktop-table), or the lower-rows of *)
(* the table, each with the parsed rank, player link and points cell.      *)
(* The columns points_move, tournaments_played, dropping and next_best are *)
(* extracted and carried exactly like points and are left out.             *)
(***************************************************************************)
\* The number of ranking dates the remote site knows (dates are 1..MaxDate,
\* ordered like the ISO date strings they stand for).
MaxDate == 2

\* The longest date dropdown returned by get_ranking_dates.
MaxDateOptions == 2

Dates == 1..MaxDate

\* get_ranking_dates: [] on failure, else the option values in page order;
\* nothing in the code removes a date that the dropdown names twice.
RemoteDateLists == SeqsUpTo(Dates, MaxDateOptions)

PageRow(rank, player_id, player_name, points) ==
    [rank |-> rank, player_id |-> player_id, player_name |-> player_name, points |-> points]

\* The remote site.  The page of a date lists the two players; on the pages
\* of the even dates the name span of p1 is empty and its rank cell holds no
\* digits, the markup the parser must tolerate.
RowA == PageRow(Some(1), Some("p1"), Some("A"), Some(100))
RowB == PageRow(Some(2), Some("p2"), Some("B"), Some(50))
RowBTop == PageRow(Some(1), Some("p2"), Some("B"), Some(90))
RowANoName == PageRow(None, Some("p1"), Some(""), None)

SitePage(ranking_type, date) ==
    IF date % 2 = 1 THEN <<RowA, RowB>> ELSE <<RowBTop, RowANoName>>

NoPage == [ok |-> FALSE, rows |-> <<>>]

\* What fetching and parsing the page of a date can give: nothing (the fetch
\* failed, or the markup has no table), or the rows of the page.
PageOutcomes(ranking_type, date) ==
    {NoPage, [ok |-> TRUE, rows |-> SitePage(ranking_type, date)]}

\* a players_data guard that tests the id only
keeps_player_id_only(row) == Truthy(row.player_id)

\* if player_id and player_name
keeps_player(row) == Truthy(row.player_id) /\ Truthy(row.player_name)

\* rankings_data of scrape_ranking
rankings_data(ranking_type, date, page) ==
    [i \in 1..Len(page.rows) |->
        [rank |-> page.rows[i].rank, player_id |-> page.rows[i].player_id,
         points |-> page.rows[i].points, date |-> date, type |-> ranking_type]]

\* players_data of scrape_ranking, as rows of PLAYERS_SCHEMA
players_data(page) ==
    LET kept == SelectSeq(page.rows, keeps_player)
    IN  [i \in 1..Len(kept) |->
            ensure_schema_columns(
                [player_id |-> kept[i].player_id, player_name |-> kept[i].player_name])]

\* scrape_ranking: (rankings_df, players_df), both empty on failure
scrape_ranking(ranking_type, date, page) ==
    IF ~page.ok \/ page.rows = <<>>
    THEN [rankings_df |-> <<>>, players_df |-> <<>>]
    ELSE [rankings_df |-> rankings_data(ranking_type, date, page),
          players_df |-> players_data(page)]

(***************************************************************************)
(* Biography parser: backend/scraper/player_scraper.py.  scrape_player     *)
(* returns a dict with one key per label found on the page: {} when the    *)
(* render failed or the page has no pd_content, a null value when the      *)
(* label is there and its text does not parse.                             *)
(***************************************************************************)
\* The page of a player with only the Country label.
BioCountry == [country |-> Some("USA")]

\* A page whose Country span is empty and whose weight reads "176 lbs".
BioWeightNoCountry == [country |-> None, weight_kg |-> Some(80)]

\* A page with every label filled.
BioFull ==
    [birthdate |-> Some("1990/01/01"), weight_kg |-> Some(80), height_cm |-> Some(188),
     turned_pro |-> Some(2008), country |-> Some("USA"), birthplace |-> Some("Omaha"),
     handedness |-> Some("Right-Handed"), backhand |-> Some("Two-Handed"),
     coach |-> Some("C")]

\* {}: the empty dict
BioNothing == [c \in {} |-> None]

\* A page whose only item is a Country label with an empty value span:
\* data['country'] = '' or None
BioEmptyCountry == [country |-> None]

BioOutcomes == {BioNothing, BioCountry, BioWeightNoCountry, BioEmptyCountry, BioFull}

(***************************************************************************)
(* Sync orchestrators: backend/scraper/updater.py.  A run executes on a    *)
(* thread; its frame holds the locals of update_rankings or                *)
(* update_player_bio and the place it has reached.  A step is the code     *)
(* between two accesses of the store or the network.                       *)
(***************************************************************************)
\* The sync runs started in one behaviour.
MaxRuns == 3

\* The admin jobs started in one behaviour.
MaxJobs == 2

\* The largest max_weeks / num_players argument.
MaxCap == 2

MainThread == "t1"

Threads == {"t1", "t2"}

IdleFrame ==
    [pc |-> "idle", op |-> "none", ranking_type |-> "singles", cap |-> None,
     all_dates |-> <<>>, existing |-> <<>>, missing |-> <<>>, dates_to_scrape |-> <<>>,
     i |-> 0,
     ranking_frames |-> <<>>, player_frames |-> <<>>, new_players |-> <<>>,
     existing_players |-> <<>>, players_df |-> <<>>, singles_df |-> <<>>,
     to_scrape |-> <<>>, updates |-> <<>>,
     outcome |-> "none", result |-> 0, failed_at |-> "none",
     \* not a local: the units fetched so far, each with whether it gave rows
     fetched |-> <<>>,
     \* not a local: the store as it was when the function was called
     store_at_call |-> [f \in Files |-> [exists |-> FALSE, rows |-> <<>>]]]

SyncIdle ==
    /\ store = [f \in Files |-> [exists |-> FALSE, rows |-> <<>>]]
    /\ run = [t \in Threads |-> IdleFrame]
    /\ runs = 0

\* The frame after `return n`.
Returned(fr, n) == [fr EXCEPT !.pc = "done", !.outcome = "returned", !.result = n]

\* The frame after a storage error left the function at step `at`.
Raised(fr, at) == [fr EXCEPT !.pc = "done", !.outcome = "raised", !.failed_at = at]

\* sorted(..., reverse=True)
sorted_reverse(s) ==
    CHOOSE t \in Reorderings(s) : \A i, j \in 1..Len(t) : i < j => t[i] >= t[j]

\* s[:n]; a negative n counts from the end
Prefix(s, n) ==
    IF n >= 0 THEN SubSeq(s, 1, IF n < Len(s) THEN n ELSE Len(s))
    ELSE SubSeq(s, 1, IF Len(s) + n > 0 THEN Len(s) + n ELSE 0)

RECURSIVE Concat(_)
\* pl.concat(frames)
Concat(frames) == IF frames = <<>> THEN <<>> ELSE Head(frames) \o Concat(Tail(frames))

\* The thread's frame replaced by fr.
SetFrame(t, fr) == run' = [run EXCEPT ![t] = fr]

\* A thread is free when it executes no run.
Free(t) == run[t].pc \in {"idle", "done"}

(***************************************************************************)
(* update_rankings(ranking_type, max_weeks), updater.py lines 29-94        *)
(***************************************************************************)
\* the call: a fresh frame
CallUpdateRankings(t, ranking_type, max_weeks) ==
    /\ Free(t)
    /\ runs' = runs + 1
    /\ SetFrame(t, [IdleFrame EXCEPT !.pc = "ur_start", !.op = "update_rankings",
                                     !.ranking_type = ranking_type, !.cap = max_weeks,
                                     !.outcome = "running", !.store_at_call = store])
    /\ UNCHANGED <<store, mergeVars, fetchVars, tourVars, restVars>>

\* A diff that forgets the stored dates.
missing_dates_unfiltered(all_dates, existing) == sorted_reverse(all_dates)

\* [d for d in all_dates if d not in scraped_dates], most recent first
missing_dates(all_dates, existing) ==
    LET scraped_dates == {r.date : r \in Range(existing)}
    IN  sorted_reverse(SelectSeq(all_dates, LAMBDA d : d \notin scraped_dates))

\* missing[:max_weeks] if max_weeks else missing
dates_to_scrape(missing, max_weeks) ==
    IF max_weeks # None /\ max_weeks[1] # 0 THEN Prefix(missing, max_weeks[1]) ELSE missing

\* lines 40-54: the remote dates, the stored table, the dates to scrape
UrStart(t) ==
    /\ run[t].pc = "ur_start"
    /\ \E all_dates \in RemoteDateLists, storage_ok \in BOOLEAN :
        LET fr == run[t]
            existing == load_data_or_empty(RankingsFile(fr.ranking_type))
            missing == missing_dates(all_dates, existing)
        IN  IF ~storage_ok
            THEN SetFrame(t, Raised(fr, "load_rankings"))
            ELSE IF missing = <<>>
            THEN SetFrame(t, Returned([fr EXCEPT !.all_dates = all_dates,
                                                 !.existing = existing], 0))
            ELSE SetFrame(t, [fr EXCEPT !.pc = IF dates_to_scrape(missing, fr.cap) = <<>>
                                               THEN "ur_save_rankings" ELSE "ur_scrape",
                                        !.all_dates = all_dates,
                                        !.existing = existing, !.missing = missing,
                                        !.dates_to_scrape = dates_to_scrape(missing, fr.cap),
                                        !.i = 1])
    /\ UNCHANGED <<store, runs, mergeVars, fetchVars, tourVars, restVars>>

\* The frame list with a wrongly appended empty frame.
appended_always(frames, df) == Append(frames, df)

\* lines 64-67: if len(df) > 0: frames.append(df)
appended(frames, df) == IF Len(df) > 0 THEN Append(frames, df) ELSE frames

\* lines 60-67: one iteration of the loop over dates_to_scrape
UrScrape(t) ==
    /\ run[t].pc = "ur_scrape"
    /\ \E page \in PageOutcomes(run[t].ranking_type, run[t].dates_to_scrape[run[t].i]) :
        LET fr == run[t]
            got == scrape_ranking(fr.ranking_type, fr.dates_to_scrape[fr.i], page)
        IN  SetFrame(t, [fr EXCEPT
                !.ranking_frames = appended(@, got.rankings_df),
                !.player_frames = appended(@, got.players_df),
                !.fetched = Append(@, [date |-> fr.dates_to_scrape[fr.i],
                                       ok |-> Len(got.rankings_df) > 0]),
                !.i = @ + 1,
                !.pc = IF fr.i = Len(fr.dates_to_scrape) THEN "ur_save_rankings" ELSE "ur_scrape"])
    /\ UNCHANGED <<store, runs, mergeVars, fetchVars, tourVars, restVars>>

\* lines 75-79: new_players.  unique() may return them in any order; the order
\* is settled by the one merge of line 90 that follows.
new_players_of(player_frames) == unique_keep_last(Concat(player_frames), <<"player_id">>)

\* line 82: combined_rankings = pl.concat([existing, new_rankings])
combined_rankings(existing, ranking_frames) == existing \o Concat(ranking_frames)

\* A check that never finds the batch empty.
nothing_scraped_never(ranking_frames) == FALSE

\* line 70: if not ranking_frames
nothing_scraped(ranking_frames) == ranking_frames = <<>>

\* lines 69-83: nothing scraped, or the ranking table saved
UrSaveRankings(t) ==
    /\ run[t].pc = "ur_save_rankings"
    /\ LET fr == run[t]
       IN  IF nothing_scraped(fr.ranking_frames)
           THEN SetFrame(t, Returned(fr, 0)) /\ UNCHANGED store
           ELSE \E storage_ok \in BOOLEAN :
                IF ~storage_ok
                THEN SetFrame(t, Raised(fr, "save_rankings")) /\ UNCHANGED store
                ELSE /\ store' = save_data(combined_rankings(fr.existing, fr.ranking_frames),
                                           RankingsFile(fr.ranking_type))
                     /\ SetFrame(t, [fr EXCEPT !.pc = "ur_load_players",
                                               !.new_players = new_players_of(fr.player_frames)])
    /\ UNCHANGED <<runs, mergeVars, fetchVars, tourVars, restVars>>

\* line 86: existing_players = load_players(schema=PLAYERS_SCHEMA)
UrLoadPlayers(t) ==
    /\ run[t].pc = "ur_load_players"
    /\ \E storage_ok \in BOOLEAN :
        IF ~storage_ok
        THEN SetFrame(t, Raised(run[t], "load_players"))
        ELSE SetFrame(t, [run[t] EXCEPT !.pc = "ur_save_players",
                                        !.existing_players = load_data_or_empty(PlayersFile)])
    /\ UNCHANGED <<store, runs, mergeVars, fetchVars, tourVars, restVars>>

\* lines 87-94: the players merged and saved, the number of weeks returned
UrSavePlayers(t) ==
    /\ run[t].pc = "ur_save_players"
    /\ LET fr == run[t]
       IN  \E storage_ok \in BOOLEAN :
            IF ~storage_ok
            THEN SetFrame(t, Raised(fr, "save_players")) /\ UNCHANGED store
            ELSE \E combined_players \in
                        UpsertOutcomes(fr.new_players, fr.existing_players, <<"player_id">>) :
                    /\ store' = save_data(combined_players, PlayersFile)
                    /\ SetFrame(t, Returned(fr, Len(fr.ranking_frames)))
    /\ UNCHANGED <<runs, mergeVars, fetchVars, tourVars, restVars>>

(***************************************************************************)
(* update_player_bio(num_players), updater.py lines 97-206                 *)
(***************************************************************************)
\* the call: a fresh frame
CallUpdatePlayerBio(t, num_players) ==
    /\ Free(t)
    /\ runs' = runs + 1
    /\ SetFrame(t, [IdleFrame EXCEPT !.pc = "ub_load_players", !.op = "update_player_bio",
                                     !.cap = Some(num_players), !.outcome = "running",
                                     !.store_at_call = store])
    /\ UNCHANGED <<store, mergeVars, fetchVars, tourVars, restVars>>

\* line 107: players_df = load_players(schema=PLAYERS_SCHEMA)
UbLoadPlayers(t) ==
    /\ run[t].pc = "ub_load_players"
    /\ \E storage_ok \in BOOLEAN :
        IF ~storage_ok
        THEN SetFrame(t, Raised(run[t], "load_players"))
        ELSE SetFrame(t, [run[t] EXCEPT !.pc = "ub_load_singles",
                                        !.players_df = load_data_or_empty(PlayersFile)])
    /\ UNCHANGED <<store, runs, mergeVars, fetchVars, tourVars, restVars>>

\* line 110: singles_df = load_rankings("singles", schema=RANKINGS_SCHEMA)
UbLoadSingles(t) ==
    /\ run[t].pc = "ub_load_singles"
    /\ \E storage_ok \in BOOLEAN :
        IF ~storage_ok
        THEN SetFrame(t, Raised(run[t], "load_rankings"))
        ELSE SetFrame(t, [run[t] EXCEPT !.pc = "ub_load_doubles",
                              !.singles_df = load_data_or_empty(RankingsFile("singles"))])
    /\ UNCHANGED <<store, runs, mergeVars, fetchVars, tourVars, restVars>>

MinOf(S) == CHOOSE x \in S : \A y \in S : x <= y

\* lines 114-138: df.sort("rank").group_by("player_id").agg(rank.min(), date.first())
\* for one player.  sort puts the null ranks first and keeps no order among
\* equal ranks, so date.first() is the date of any row with a null rank when
\* there is one, and of any row with the minimum rank otherwise.
best_of(df, player_id) ==
    LET rows == {r \in Range(df) : player_id # None /\ r.player_id = player_id}
        ranked == {r \in rows : r.rank # None}
        best_rank == IF ranked = {} THEN None ELSE Some(MinOf({r.rank[1] : r \in ranked}))
        firsts == IF rows \ ranked # {} THEN rows \ ranked
                  ELSE {r \in ranked : r.rank = best_rank}
    IN  IF rows = {} THEN {[rank |-> None, date |-> None]}
        ELSE {[rank |-> best_rank, date |-> Some(r.date)] : r \in firsts}

\* pl.coalesce([a, b])
coalesce(a, b) == IF a # None THEN a ELSE b

\* lines 141-149: the enriched row of a player, one per outcome of the two sorts
enriched_rows(row, singles_df, doubles_df) ==
    {[player_id |-> row.player_id, player_name |-> row.player_name,
      best_rank |-> coalesce(s.rank, d.rank),
      best_rank_date |-> coalesce(s.date, d.date)] :
        s \in best_of(singles_df, row.player_id), d \in best_of(doubles_df, row.player_id)}

bio_check_cols == {"birthdate", "weight_kg", "height_cm", "country", "handedness"}

\* lines 152-154: a player misses bio data when one of bio_check_cols is null
missing_bio(row) == \E c \in bio_check_cols : row[c] = None

\* sort(["best_rank", "best_rank_date"], descending=[False, True], nulls_last=True):
\* a must come before b
sorts_before(a, b) ==
    \/ a.best_rank # None /\ (b.best_rank = None \/ a.best_rank[1] < b.best_rank[1])
    \/ /\ a.best_rank = b.best_rank
       /\ a.best_rank_date # None
       /\ (b.best_rank_date = None \/ a.best_rank_date[1] > b.best_rank_date[1])

\* lines 141-161: the tables to_scrape can be; rows that tie come in any order
to_scrape_choices(players_df, singles_df, doubles_df, num_players) ==
    LET idx == {i \in 1..Len(players_df) : missing_bio(players_df[i])}
        m == Cardinality(idx)
        orders == {p \in [1..m -> idx] : \A i, j \in 1..m : i # j => p[i] # p[j]}
        all == UNION {enriched_rows(players_df[i], singles_df, doubles_df) : i \in idx}
        enrichments == {e \in [idx -> all] :
                            \A i \in idx : e[i] \in enriched_rows(players_df[i], singles_df, doubles_df)}
    IN  {Prefix([k \in 1..m |-> e[p[k]]], num_players) :
            <<e, p>> \in {x \in enrichments \X orders :
                            \A i, j \in 1..m : i < j => ~sorts_before(x[1][x[2][j]], x[1][x[2][i]])}}

\* lines 111-167: the doubles table loaded, the players to scrape selected
UbLoadDoubles(t) ==
    /\ run[t].pc = "ub_load_doubles"
    /\ \E storage_ok \in BOOLEAN :
        IF ~storage_ok
        THEN SetFrame(t, Raised(run[t], "load_rankings"))
        ELSE LET fr == run[t]
                 doubles_df == load_data_or_empty(RankingsFile("doubles"))
             IN  \E to_scrape \in to_scrape_choices(fr.players_df, fr.singles_df,
                                                    doubles_df, fr.cap[1]) :
                    IF to_scrape = <<>>
                    THEN SetFrame(t, Returned([fr EXCEPT !.singles_df = <<>>], 0))
                    ELSE SetFrame(t, [fr EXCEPT !.pc = "ub_scrape", !.singles_df = <<>>,
                                                !.to_scrape = to_scrape, !.i = 1])
    /\ UNCHANGED <<store, runs, mergeVars, fetchVars, tourVars, restVars>>

\* A test that takes an empty dict for data too.
has_data_always(data) == TRUE

\* line 176: if data
has_data(data) == DOMAIN data # {}

\* lines 171-180: one iteration of the loop over to_scrape
UbScrape(t) ==
    /\ run[t].pc = "ub_scrape"
    /\ \E data \in BioOutcomes :
        LET fr == run[t]
            row == fr.to_scrape[fr.i]
            update == [player_id |-> row.player_id, player_name |-> row.player_name] @@ data
        IN  SetFrame(t, [fr EXCEPT
                !.updates = IF has_data(data) THEN Append(@, update) ELSE @,
                !.fetched = Append(@, [player_id |-> row.player_id, data |-> data]),
                !.i = @ + 1,
                !.pc = IF fr.i = Len(fr.to_scrape) THEN "ub_save" ELSE "ub_scrape"])
    /\ UNCHANGED <<store, runs, mergeVars, fetchVars, tourVars, restVars>>

\* lines 192-202: each bio column named by the player's update takes its value
apply_updates(players_df, updates) ==
    [i \in 1..Len(players_df) |->
        LET row == players_df[i]
            mine == {j \in 1..Len(updates) :
                        row.player_id # None /\ updates[j].player_id = row.player_id}
        IN  IF mine = {} THEN row
            ELSE LET update_data == updates[CHOOSE j \in mine : \A k \in mine : k <= j]
                 IN  [c \in DOMAIN row |->
                        IF c \in Range(BIO_COLUMNS) /\ c \in DOMAIN update_data
                        THEN update_data[c] ELSE row[c]]]

\* lines 182-206: nothing scraped, or the updated player table saved
UbSave(t) ==
    /\ run[t].pc = "ub_save"
    /\ LET fr == run[t]
       IN  IF fr.updates = <<>>
           THEN SetFrame(t, Returned(fr, 0)) /\ UNCHANGED store
           ELSE \E storage_ok \in BOOLEAN :
                IF ~storage_ok
                THEN SetFrame(t, Raised(fr, "save_players")) /\ UNCHANGED store
                ELSE /\ store' = save_data(apply_updates(fr.players_df, fr.updates), PlayersFile)
                     /\ SetFrame(t, Returned(fr, Len(fr.updates)))
    /\ UNCHANGED <<runs, mergeVars, fetchVars, tourVars, restVars>>

(***************************************************************************)
(* Tournament sync: backend/scraper/tournament_scraper.py and its callers, *)
(* scripts/update_tournaments.py main and run_update of                    *)
(* manual_update_tournaments (backend/api/admin.py), which run the same    *)
(* loop, merge and save.  A results-archive page is a list of <li>         *)
(* entries; an entry has a tournament-info block or not, a name, a start   *)
(* date (null when the date text does not parse), a Singles winner link or *)
(* none and Doubles winner links.  A link is [text, id]: id is null when   *)
(* extract_player_id finds no player id in the href.  venue, country_code, *)
(* end_date and doubles_winner_names are carried like the name and are     *)
(* left out; doubles_winner_ids is the sequence that ','.join writes.      *)
(***************************************************************************)
\* The years the archive is asked for are 1..MaxYear.
MaxYear == 2

\* The longest list of tournament types of one sync.
MaxTypes == 2

\* The tournament syncs started in one behaviour.
MaxTourRuns == 2

TournamentTypes == {"atp", "gs"}

TournamentsFile == "tournaments.parquet"

TournamentKey == <<"year", "tournament_type", "tournament_name", "start_date">>

Link(text, id) == [text |-> text, id |-> id]

Entry(info, name, start_date, singles, doubles) ==
    [info |-> info, name |-> name, start_date |-> start_date,
     singles |-> singles, doubles |-> doubles]

\* A finished event with a singles winner.
EntryOpen == Entry(TRUE, Some("Open"), Some(1), Some(Link("A", Some("p1"))), <<>>)

\* The same event, listed with its doubles winners only; one of the two
\* links carries no player id.
EntryOpenDoubles ==
    Entry(TRUE, Some("Open"), Some(1), None, <<Link("B", Some("p2")), Link("C", None)>>)

\* An event in progress: no winner block.
EntryUpcoming == Entry(TRUE, Some("Next"), Some(2), None, <<>>)

\* An event whose winner links carry no player id.
EntryBadLinks == Entry(TRUE, Some("Bad"), None, Some(Link("X", None)), <<Link("Y", None)>>)

\* An <li> without a tournament-info block.
EntryNoInfo == Entry(FALSE, None, None, None, <<>>)

\* The archive page of a (year, type) as it reads early and late in a season.
ArchivePages ==
    {<<EntryNoInfo, EntryOpen, EntryUpcoming>>, <<EntryOpenDoubles, EntryBadLinks>>}

\* What fetch_with_retry gives for a pair: None, or a response with a page.
ArchiveOutcomes ==
    {[ok |-> FALSE, entries |-> <<>>]} \cup {[ok |-> TRUE, entries |-> e] : e \in ArchivePages}

\* lines 131-133: singles_winner_id
singles_winner_id(entry) == IF entry.singles = None THEN None ELSE entry.singles[1].id

\* lines 135-138: doubles_winner_ids, the ids that were found
doubles_winner_ids(entry) ==
    LET found == SelectSeq(entry.doubles, LAMBDA link : link.id # None)
    IN  [i \in 1..Len(found) |-> found[i].id[1]]

\* A winner test that takes a winner's name for a winner.
has_winner_by_name(entry) == entry.singles # None \/ entry.doubles # <<>>

\* line 141, negated: not (not singles_winner_id and not doubles_winner_ids)
has_winner(entry) == singles_winner_id(entry) # None \/ doubles_winner_ids(entry) # <<>>

\* lines 144-156: the record of an entry
tournament_record(year, tournament_type, entry) ==
    [year |-> year, tournament_type |-> tournament_type,
     tournament_name |-> entry.name, start_date |-> entry.start_date,
     singles_winner_id |-> singles_winner_id(entry),
     singles_winner_name |-> IF entry.singles = None THEN None
                             ELSE Some(entry.singles[1].text),
     doubles_winner_ids |-> IF doubles_winner_ids(entry) # <<>>
                            THEN Some(doubles_winner_ids(entry)) ELSE None]

\* scrape_tournaments(year, tournament_type): empty on failure
scrape_tournaments(year, tournament_type, page) ==
    IF ~page.ok THEN <<>>
    ELSE LET kept == SelectSeq(page.entries, LAMBDA e : e.info /\ has_winner(e))
         IN  [i \in 1..Len(kept) |-> tournament_record(year, tournament_type, kept[i])]

\* The pairs in type-then-year order.
pairs_type_major(start_year, end_year, type_list) ==
    LET n == IF end_year >= start_year THEN end_year - start_year + 1 ELSE 0
    IN  [k \in 1..(n * Len(type_list)) |->
            [year |-> start_year + ((k - 1) % n),
             tournament_type |-> type_list[((k - 1) \div n) + 1]]]

\* for year in range(start_year, end_year + 1): for t_type in types
pairs_in_order(start_year, end_year, type_list) ==
    LET n == IF end_year >= start_year THEN end_year - start_year + 1 ELSE 0
        m == Len(type_list)
    IN  [k \in 1..(n * m) |->
            [year |-> start_year + ((k - 1) \div m),
             tournament_type |-> type_list[((k - 1) % m) + 1]]]

TourIdleFrame ==
    [pc |-> "idle", pairs |-> <<>>, type_list |-> <<>>, start_year |-> 0, end_year |-> 0,
     i |-> 0, new_tournaments |-> <<>>, outcome |-> "none",
     \* not locals: the pairs fetched so far with what each gave, and the
     \* stored table as it was when the sync started
     fetched |-> <<>>, rows_at_call |-> {}]

\* The stored table is kept as the set of its rows: the unique() of upsert_data
\* leaves their order unspecified, and a load gives them in any order.
TourIdle ==
    /\ t_store = [exists |-> FALSE, rows |-> {}]
    /\ t_run = TourIdleFrame
    /\ t_runs = 0

\* The type lists a caller passes: types.split(','), validated, never empty.
TypeLists == SeqsUpTo(TournamentTypes, MaxTypes) \ {<<>>}

\* main, lines 32-52: the arguments, and the loop that an empty year range skips
CallTournamentSync ==
    /\ t_run.pc \in {"idle", "done"}
    /\ t_runs < MaxTourRuns
    /\ \E start_year, end_year \in 1..MaxYear, type_list \in TypeLists :
        LET pairs == pairs_in_order(start_year, end_year, type_list)
        IN  t_run' = [TourIdleFrame EXCEPT
                        !.pc = IF pairs = <<>> THEN "done" ELSE "tu_scrape",
                        !.outcome = IF pairs = <<>> THEN "returned" ELSE "running",
                        !.pairs = pairs, !.type_list = type_list,
                        !.start_year = start_year, !.end_year = end_year,
                        !.i = 1, !.rows_at_call = t_store.rows]
    /\ t_runs' = t_runs + 1
    /\ UNCHANGED <<t_store, mergeVars, fetchVars, syncVars, restVars>>

\* main, lines 45-48: new_tournaments.append(scrape_tournaments(year, t_type))
TuScrape ==
    /\ t_run.pc = "tu_scrape"
    /\ \E page \in ArchiveOutcomes :
        LET pair == t_run.pairs[t_run.i]
        IN  t_run' = [t_run EXCEPT
                !.new_tournaments =
                    Append(@, scrape_tournaments(pair.year, pair.tournament_type, page)),
                !.fetched = Append(@, [year |-> pair.year,
                                       tournament_type |-> pair.tournament_type,
                                       page |-> page]),
                !.i = @ + 1,
                !.pc = IF t_run.i = Len(t_run.pairs) THEN "tu_merge" ELSE "tu_scrape"]
    /\ UNCHANGED <<t_store, t_runs, mergeVars, fetchVars, syncVars, restVars>>

\* The orders in which a load can give the stored rows.
RowOrders(rows) ==
    {o \in [1..Cardinality(rows) -> rows] :
        \A a, b \in 1..Cardinality(rows) : a # b => o[a] # o[b]}

\* main, lines 54-66: new_df, existing_df = load_tournaments(...), the merge by
\* the composite key, save_tournaments; a storage error leaves the function.
TuMerge ==
    /\ t_run.pc = "tu_merge"
    /\ \E load_ok, save_ok \in BOOLEAN :
        IF ~load_ok \/ ~save_ok
        THEN t_run' = [t_run EXCEPT !.pc = "done", !.outcome = "raised"] /\ UNCHANGED t_store
        ELSE \E existing_df \in RowOrders(IF t_store.exists THEN t_store.rows ELSE {}) :
                /\ t_store' = [exists |-> TRUE,
                               rows |-> Range(upsert_data(Concat(t_run.new_tournaments),
                                                          existing_df, TournamentKey))]
                /\ t_run' = [t_run EXCEPT !.pc = "done", !.outcome = "returned"]
    /\ UNCHANGED <<t_runs, mergeVars, fetchVars, syncVars, restVars>>

(***************************************************************************)
(* Read endpoints: backend/api/main.py.  Each handler loads a dataset with *)
(* load_players() / load_rankings() without a schema, that is with         *)
(* load_data, inside try ... except Exception: raise HTTPException(500).   *)
(* A response is [endpoint, status, body]; the order of the rows of a body *)
(* and the limit (at least the size of the tables here) are left out.      *)
(***************************************************************************)
NoResponse ==
    [endpoint |-> "none", status |-> 0, body |-> {},
     \* not part of the response: whether the dataset existed and whether the
     \* storage layer answered when the handler loaded it
     found |-> FALSE, storage_ok |-> TRUE]

ReadIdle == r_resp = NoResponse

\* load_data(filename) as a handler sees it: the rows, or the exception raised
load_result(filename, storage_ok) ==
    IF ~storage_ok THEN [raised |-> "ClientError", rows |-> <<>>]
    ELSE IF ~Exists(filename) THEN [raised |-> "FileNotFoundError", rows |-> <<>>]
    ELSE [raised |-> "nothing", rows |-> load_data(filename)]

\* str.to_lowercase() on the player names of the site
to_lowercase(name) == IF name = "A" THEN "a" ELSE IF name = "B" THEN "b" ELSE name

\* The search texts q of a request (min_length=1).
SearchTexts == {"a", "B"}

\* player_name.str.to_lowercase().str.contains(q.lower()): one-letter texts
\* contain one another when they are equal; a null name gives a null mask
name_matches(row, q) ==
    row.player_name # None /\ to_lowercase(row.player_name[1]) = to_lowercase(q)

\* try: df = load_...(); if len(df) == 0: return []; return df.filter(...)
\* except Exception as e: raise HTTPException(status_code=500)
response_of(endpoint, loaded, kept) ==
    [endpoint |-> endpoint,
     status |-> IF loaded.raised = "nothing" THEN 200 ELSE 500,
     body |-> Range(loaded.rows) \cap kept]

\* The response with what the handler met at its load.
Met(resp, filename, storage_ok) ==
    [endpoint |-> resp.endpoint, status |-> resp.status, body |-> resp.body,
     found |-> Exists(filename), storage_ok |-> storage_ok]

\* lines 54-69: GET /players/search
search_players ==
    /\ \E q \in SearchTexts, storage_ok \in BOOLEAN :
        LET loaded == load_result(PlayersFile, storage_ok)
        IN  r_resp' = Met(response_of("search_players", loaded,
                                      {r \in Range(loaded.rows) : name_matches(r, q)}),
                          PlayersFile, storage_ok)
    /\ UNCHANGED <<mergeVars, fetchVars, syncVars, tourVars, dateVars, intVars, bioVars, siteVars,
                 jobVars>>

\* lines 149-164: the has_bio filter over the five bio fields
has_bio_filter(row, has_bio) ==
    LET bio_fields == {"birthdate", "weight_kg", "height_cm", "country", "handedness"}
    IN  IF has_bio = None THEN TRUE
        ELSE IF has_bio[1] THEN \E c \in bio_fields : row[c] # None
        ELSE \A c \in bio_fields : row[c] = None

\* lines 132-172: GET /players
get_players ==
    /\ \E has_bio \in {None, Some(TRUE), Some(FALSE)}, storage_ok \in BOOLEAN :
        LET loaded == load_result(PlayersFile, storage_ok)
        IN  r_resp' = Met(response_of("get_players", loaded,
                                      {r \in Range(loaded.rows) : has_bio_filter(r, has_bio)}),
                          PlayersFile, storage_ok)
    /\ UNCHANGED <<mergeVars, fetchVars, syncVars, tourVars, dateVars, intVars, bioVars, siteVars,
                 jobVars>>

\* lines 71-107: GET /rankings/stored without player_ids and latest_only
get_stored_rankings ==
    /\ \E ranking_type \in RankingTypes, storage_ok \in BOOLEAN :
        LET loaded == load_result(RankingsFile(ranking_type), storage_ok)
        IN  r_resp' = Met(response_of("get_stored_rankings", loaded, Range(loaded.rows)),
                          RankingsFile(ranking_type), storage_ok)
    /\ UNCHANGED <<mergeVars, fetchVars, syncVars, tourVars, dateVars, intVars, bioVars, siteVars,
                 jobVars>>

(***************************************************************************)
(* Date-range parser: backend/scraper/tournament_scraper.py,               *)
(* _parse_date_range.  A text is a sequence of atoms: a digit, a white-    *)
(* space character, "-", ",", or a maximal run of letters (a word), which  *)
(* is what the character classes of the three regular expressions tell     *)
(* apart.  A date string is the sequence of its characters.                *)
(***************************************************************************)
Digit == {"0", "1", "2", "3", "4", "5", "6", "7", "8", "9"}

Space == {" ", "\n"}

IsDigit(a) == a \in Digit

IsSpace(a) == a \in Space

\* [A-Za-z]+ matches a whole word
IsWord(a) == a \notin Digit \cup Space \cup {"-", ",", "+", "."}

\* config.py MONTH_MAP
MONTH_MAP ==
    [month \in {"January", "February", "March", "April", "May", "June", "July",
                "August", "September", "October", "November", "December"} |->
        CASE month = "January" -> <<"0", "1">> [] month = "February" -> <<"0", "2">>
          [] month = "March" -> <<"0", "3">> [] month = "April" -> <<"0", "4">>
          [] month = "May" -> <<"0", "5">> [] month = "June" -> <<"0", "6">>
          [] month = "July" -> <<"0", "7">> [] month = "August" -> <<"0", "8">>
          [] month = "September" -> <<"0", "9">> [] month = "October" -> <<"1", "0">>
          [] month = "November" -> <<"1", "1">> [] month = "December" -> <<"1", "2">>]

\* MONTH_MAP.get(month, '01')
month_num(month) == IF month \in DOMAIN MONTH_MAP THEN MONTH_MAP[month] ELSE <<"0", "1">>

\* str.zfill(2)
zfill2(digits) ==
    IF Len(digits) = 0 THEN <<"0", "0">>
    ELSE IF Len(digits) = 1 THEN <<"0">> \o digits
    ELSE digits

\* " ".join(date_str.split())
normalize_spaces(text) ==
    LET kept == SelectSeq2(text, LAMBDA i, a :
                    \/ ~IsSpace(a)
                    \/ /\ i > 1 /\ ~IsSpace(text[i - 1])
                       /\ \E j \in (i + 1)..Len(text) : ~IsSpace(text[j]))
    IN  [i \in 1..Len(kept) |-> IF IsSpace(kept[i]) THEN " " ELSE kept[i]]

\* Where the run of atoms of the class that starts at position i ends.
RunEnd(text, i, class) ==
    CHOOSE j \in i..(Len(text) + 1) :
        /\ \A k \in i..(j - 1) : text[k] \in class
        /\ j = Len(text) + 1 \/ text[j] \notin class

NoMatch == [ok |-> FALSE, groups |-> <<>>]

RECURSIVE MatchFrom(_, _, _, _)
\* re.match of the pattern, a sequence of the elements \d+ \s* \s+ - [A-Za-z]+
\* ,? \d{4}, at position i of the text; the groups are those of ( ).  The
\* classes are disjoint, so the greedy match is the only one.
MatchFrom(pattern, text, i, groups) ==
    IF pattern = <<>> THEN [ok |-> TRUE, groups |-> groups]
    ELSE LET e == Head(pattern)
             rest == Tail(pattern)
             digits_end == RunEnd(text, i, Digit)
             spaces_end == RunEnd(text, i, Space)
         IN  CASE e = "(\\d+)" ->
                    IF digits_end > i
                    THEN MatchFrom(rest, text, digits_end,
                                   Append(groups, SubSeq(text, i, digits_end - 1)))
                    ELSE NoMatch
               [] e = "\\s*" -> MatchFrom(rest, text, spaces_end, groups)
               [] e = "\\s+" ->
                    IF spaces_end > i THEN MatchFrom(rest, text, spaces_end, groups) ELSE NoMatch
               [] e = "-" ->
                    IF i <= Len(text) /\ text[i] = "-"
                    THEN MatchFrom(rest, text, i + 1, groups) ELSE NoMatch
               [] e = "([A-Za-z]+)" ->
                    IF i <= Len(text) /\ IsWord(text[i])
                    THEN MatchFrom(rest, text, i + 1, Append(groups, <<text[i]>>))
                    ELSE NoMatch
               [] e = ",?" ->
                    MatchFrom(rest, text, IF i <= Len(text) /\ text[i] = "," THEN i + 1 ELSE i,
                              groups)
               [] e = "(\\d{4})" ->
                    IF i + 3 <= Len(text) /\ \A k \in i..(i + 3) : IsDigit(text[k])
                    THEN MatchFrom(rest, text, i + 4, Append(groups, SubSeq(text, i, i + 3)))
                    ELSE NoMatch

re_match(pattern, text) == MatchFrom(pattern, text, 1, <<>>)

\* line 30: (\d+)\s*-\s*(\d+)\s+([A-Za-z]+),?\s+(\d{4})
SingleMonthPattern ==
    <<"(\\d+)", "\\s*", "-", "\\s*", "(\\d+)", "\\s+", "([A-Za-z]+)", ",?", "\\s+", "(\\d{4})">>

\* line 39: (\d+)\s+([A-Za-z]+)\s*-\s*(\d+)\s+([A-Za-z]+),?\s+(\d{4})
CrossMonthPattern ==
    <<"(\\d+)", "\\s+", "([A-Za-z]+)", "\\s*", "-", "\\s*",
      "(\\d+)", "\\s+", "([A-Za-z]+)", ",?", "\\s+", "(\\d{4})">>

\* line 50: (\d+)\s+([A-Za-z]+),?\s+(\d{4})\s*-\s*(\d+)\s+([A-Za-z]+),?\s+(\d{4})
CrossYearPattern ==
    <<"(\\d+)", "\\s+", "([A-Za-z]+)", ",?", "\\s+", "(\\d{4})", "\\s*", "-", "\\s*",
      "(\\d+)", "\\s+", "([A-Za-z]+)", ",?", "\\s+", "(\\d{4})">>

\* f"{year}-{month_num}-{day.zfill(2)}"
date_string(year, month, day) ==
    year \o <<"-">> \o month_num(month[1]) \o <<"-">> \o zfill2(day)

NoDates == [start_date |-> None, end_date |-> None]

\* _parse_date_range(date_str), lines 21-61
parse_date_range(date_str) ==
    LET text == normalize_spaces(date_str)
        single == re_match(SingleMonthPattern, text)
        cross_month == re_match(CrossMonthPattern, text)
        cross_year == re_match(CrossYearPattern, text)
    IN  IF date_str = <<>> THEN NoDates
        ELSE IF single.ok
        THEN LET g == single.groups
             IN  [start_date |-> Some(date_string(g[4], g[3], g[1])),
                  end_date |-> Some(date_string(g[4], g[3], g[2]))]
        ELSE IF cross_month.ok
        THEN LET g == cross_month.groups
             IN  [start_date |-> Some(date_string(g[5], g[2], g[1])),
                  end_date |-> Some(date_string(g[5], g[4], g[3]))]
        ELSE IF cross_year.ok
        THEN LET g == cross_year.groups
             IN  [start_date |-> Some(date_string(g[3], g[2], g[1])),
                  end_date |-> Some(date_string(g[6], g[5], g[4]))]
        ELSE NoDates

\* The texts of the date cell.  A text is written from its parts: two days,
\* the month words, the years, with or without the comma, with or without
\* spaces around the dash, and with single or repeated whitespace.
DayTexts == {<<"3">>, <<"0", "9">>, <<"1", "2", "3">>}

MonthWords == {"January", "October", "Sept"}

YearTexts == {<<"2", "0", "2", "2">>, <<"2", "0", "2", "5">>}

Layouts == [comma : BOOLEAN, tight : BOOLEAN, padded : BOOLEAN]

NoLayout == [comma |-> FALSE, tight |-> FALSE, padded |-> FALSE]

\* Texts that follow none of the three patterns.
OtherTexts ==
    {<<>>, <<"\n">>, <<"TBD">>, <<"3", " ", "January">>,
     <<"3", " ", "-", " ", "9", " ", "January", ",", " ", "2", "0", "2">>,
     <<"January", " ", "3", " ", "-", " ", "9", ",", " ", "2", "0", "2", "2">>,
     <<"3", "-", "9", "January", ",", " ", "2", "0", "2", "2">>}

DateShapes ==
    [kind : {"single"}, d1 : DayTexts, m1 : {"January"}, y1 : {<<"2", "0", "2", "2">>},
     d2 : DayTexts, m2 : MonthWords, y2 : YearTexts, layout : Layouts, other : {<<>>}]
    \cup [kind : {"cross_month"}, d1 : DayTexts, m1 : MonthWords, y1 : {<<"2", "0", "2", "2">>},
          d2 : DayTexts, m2 : MonthWords, y2 : YearTexts, layout : Layouts, other : {<<>>}]
    \cup [kind : {"cross_year"}, d1 : DayTexts, m1 : MonthWords, y1 : YearTexts,
          d2 : DayTexts, m2 : MonthWords, y2 : YearTexts, layout : Layouts, other : {<<>>}]
    \cup [kind : {"other"}, d1 : {<<"3">>}, m1 : {"January"}, y1 : {<<"2", "0", "2", "2">>},
          d2 : {<<"3">>}, m2 : {"January"}, y2 : {<<"2", "0", "2", "2">>},
          layout : {NoLayout}, other : OtherTexts]

\* The text of the date cell written from the parts.
TextOf(shape) ==
    LET sp == IF shape.layout.padded THEN <<" ", "\n">> ELSE <<" ">>
        dash == IF shape.layout.tight THEN <<"-">> ELSE sp \o <<"-">> \o sp
        comma == IF shape.layout.comma THEN <<",">> ELSE <<>>
        edge == IF shape.layout.padded THEN <<"\n">> ELSE <<>>
        last == shape.d2 \o sp \o <<shape.m2>> \o comma \o sp \o shape.y2
    IN  CASE shape.kind = "single" -> edge \o shape.d1 \o dash \o last \o edge
          [] shape.kind = "cross_month" ->
                edge \o shape.d1 \o sp \o <<shape.m1>> \o dash \o last \o edge
          [] shape.kind = "cross_year" ->
                edge \o shape.d1 \o sp \o <<shape.m1>> \o comma \o sp \o shape.y1
                     \o dash \o last \o edge
          [] OTHER -> shape.other

DateIdle ==
    /\ d_pc = "in"
    /\ d_shape = CHOOSE shape \in DateShapes : shape.kind = "other" /\ shape.other = <<>>
    /\ d_text = <<>>
    /\ d_out = NoDates

InitDateVars ==
    /\ d_pc = "in"
    /\ d_shape \in DateShapes
    /\ d_text = TextOf(d_shape)
    /\ d_out = NoDates

\* start_date, end_date = _parse_date_range(date_text)
ParseDateRange ==
    /\ d_pc = "in"
    /\ d_out' = parse_date_range(d_text)
    /\ d_pc' = "parsed"
    /\ UNCHANGED <<d_shape, d_text>>
    /\ UNCHANGED <<mergeVars, fetchVars, syncVars, tourVars, readVars, intVars, bioVars, siteVars,
                 jobVars>>

(***************************************************************************)
(* Cell parser: backend/scraper/ranking_scraper.py, _extract_int.  The     *)
(* text of a cell is the sequence of its characters.                       *)
(***************************************************************************)
\* The longest cell text.
MaxCellLen == 4

\* The characters of a cell text; "x" stands for any other character.
CellChars == {"0", "1", "2", ",", "-", "+", " ", "x"}

\* cell: None (no such td), or a Tag with its text
Cells ==
    {None} \cup {Some(text) : text \in SeqsUpTo(CellChars, MaxCellLen)}
           \cup {Some(<<"1", ",", "2", "3", "4">>)}

RECURSIVE lstrip(_, _)
\* str.lstrip(chars)
lstrip(text, chars) ==
    IF text # <<>> /\ Head(text) \in chars THEN lstrip(Tail(text), chars) ELSE text

RECURSIVE rstrip(_, _)
rstrip(text, chars) ==
    IF text # <<>> /\ text[Len(text)] \in chars
    THEN rstrip(SubSeq(text, 1, Len(text) - 1), chars) ELSE text

\* str.strip()
strip(text) == rstrip(lstrip(text, Space), Space)

\* str.replace(",", "")
remove_commas(text) == SelectSeq(text, LAMBDA a : a # ",")

\* str.isdigit()
isdigit(text) == text # <<>> /\ \A i \in 1..Len(text) : IsDigit(text[i])

DigitValue(a) == CHOOSE v \in 0..9 : <<"0", "1", "2", "3", "4", "5", "6", "7", "8", "9">>[v + 1] = a

RECURSIVE DigitsValue(_)
DigitsValue(digits) ==
    IF digits = <<>> THEN 0
    ELSE 10 * DigitsValue(SubSeq(digits, 1, Len(digits) - 1)) + DigitValue(digits[Len(digits)])

\* int(text): whitespace, one optional sign, then digits; ValueError otherwise
py_int(text) ==
    LET t == strip(text)
        signed == t # <<>> /\ Head(t) \in {"-", "+"}
        digits == IF signed THEN Tail(t) ELSE t
    IN  IF ~isdigit(digits) THEN [raised |-> "ValueError", value |-> None]
        ELSE [raised |-> "nothing",
              value |-> Some(IF signed /\ Head(t) = "-" THEN 0 - DigitsValue(digits)
                             ELSE DigitsValue(digits))]

ReturnedValue(v) == [raised |-> "nothing", value |-> v]

\* _extract_int(cell), lines 44-51
extract_int(cell) ==
    IF cell = None THEN ReturnedValue(None)
    ELSE LET text == remove_commas(strip(cell[1]))
         IN  IF text = <<>> \/ text = <<"-">> THEN ReturnedValue(None)
             ELSE IF isdigit(lstrip(text, {"-", "+"})) THEN py_int(text)
             ELSE ReturnedValue(None)

IntIdle == x_pc = "in" /\ x_cell = None /\ x_out = ReturnedValue(None)

InitIntVars == x_pc = "in" /\ x_cell \in Cells /\ x_out = ReturnedValue(None)

\* "points": _extract_int(_find_cell(row, "points"))
ExtractInt ==
    /\ x_pc = "in"
    /\ x_out' = extract_int(x_cell)
    /\ x_pc' = "done"
    /\ UNCHANGED x_cell
    /\ UNCHANGED <<mergeVars, fetchVars, syncVars, tourVars, readVars, dateVars, bioVars, siteVars,
                 jobVars>>

(***************************************************************************)
(* Biography fetch: backend/scraper/player_scraper.py, scrape_player.  One *)
(* action per page render and per time.sleep; b_outcomes and b_sleeps      *)
(* record them.                                                            *)
(***************************************************************************)
\* The largest max_retries argument of scrape_player explored.
MaxBioRetriesArg == 5

\* How one render (launch, goto, content) and parse can end: a timeout, any
\* other exception, a page without pd_content, or a page and its dict.
RenderOutcomes ==
    {[kind |-> "TimeoutError", data |-> BioNothing],
     [kind |-> "Exception", data |-> BioNothing],
     [kind |-> "no pd_content", data |-> BioNothing]}
        \cup {[kind |-> "page", data |-> d] : d \in BioOutcomes \ {BioNothing}}

\* line 122: time.sleep(2)
bio_wait_time(attempt) == 2

BioFetchIdle ==
    /\ b_pc = "idle" /\ b_max_retries = MAX_RETRIES /\ b_attempt = 0
    /\ b_outcomes = <<>> /\ b_sleeps = <<>> /\ b_result = BioNothing

\* scrape_player(player_id, player_slug, max_retries): enter the loop
BioFetchCall ==
    /\ b_pc = "idle"
    /\ \E n \in 1..MaxBioRetriesArg : b_max_retries' = n
    /\ b_attempt' = 0
    /\ b_pc' = "render"
    /\ UNCHANGED <<b_outcomes, b_sleeps, b_result>>
    /\ UNCHANGED <<mergeVars, fetchVars, syncVars, tourVars, readVars, dateVars, intVars, siteVars,
                 jobVars>>

\* lines 73-129: one iteration of the loop up to its return or its time.sleep
BioFetchRender ==
    /\ b_pc = "render"
    /\ \E outcome \in RenderOutcomes :
        /\ b_outcomes' = Append(b_outcomes, outcome.kind)
        /\ IF outcome.kind = "TimeoutError" /\ attempts_remain(b_attempt, b_max_retries)
           THEN b_pc' = "sleep" /\ UNCHANGED b_result
           ELSE b_pc' = "done" /\ b_result' = outcome.data
    /\ UNCHANGED <<b_max_retries, b_attempt, b_sleeps>>
    /\ UNCHANGED <<mergeVars, fetchVars, syncVars, tourVars, readVars, dateVars, intVars, siteVars,
                 jobVars>>

\* line 122: time.sleep(2), then the next value of attempt
BioFetchSleep ==
    /\ b_pc = "sleep"
    /\ b_sleeps' = Append(b_sleeps, bio_wait_time(b_attempt))
    /\ b_attempt' = b_attempt + 1
    /\ b_pc' = "render"
    /\ UNCHANGED <<b_max_retries, b_outcomes, b_result>>
    /\ UNCHANGED <<mergeVars, fetchVars, syncVars, tourVars, readVars, dateVars, intVars, siteVars,
                 jobVars>>

(***************************************************************************)
(* Repeated runs: the weekly task (backend/api/main.py, update_weekly) and *)
(* the CLI call update_rankings and update_player_bio again and again with *)
(* the same cap.  w_site fixes what does not change between the runs: the  *)
(* remote date list, the dates whose page can be fetched and parsed, the   *)
(* dict scrape_player gives for each player, and the caller's arguments.   *)
(* The storage layer answers.                                              *)
(***************************************************************************)
PlayerIds == {Some("p1"), Some("p2")}

NoSite ==
    [dates |-> <<>>, ok_dates |-> {}, ranking_type |-> "singles", max_weeks |-> 1,
     num_players |-> 1, bio |-> [p \in PlayerIds |-> BioNothing]]

SiteIdle == w_site = NoSite

\* update_rankings(ranking_type, max_weeks=k), called again
RerunUpdateRankings ==
    /\ Free(MainThread)
    /\ runs' = IF runs < MaxRuns THEN runs + 1 ELSE runs
    /\ SetFrame(MainThread,
                [IdleFrame EXCEPT !.pc = "ur_start", !.op = "update_rankings",
                                  !.ranking_type = w_site.ranking_type,
                                  !.cap = Some(w_site.max_weeks),
                                  !.outcome = "running", !.store_at_call = store])
    /\ UNCHANGED <<store, mergeVars, fetchVars, tourVars, restVars>>

\* The step of the run met no storage error.
StorageAnswered == run'[MainThread].outcome # "raised"

\* UrStart with the date list of the site
SiteUrStart ==
    /\ UrStart(MainThread)
    /\ StorageAnswered
    /\ run'[MainThread].all_dates = w_site.dates

\* UrScrape with the page the site gives for the date, or none
SiteUrScrape ==
    /\ UrScrape(MainThread)
    /\ LET fetched == run'[MainThread].fetched
           last == fetched[Len(fetched)]
       IN  last.ok <=> last.date \in w_site.ok_dates

SiteUrSaveRankings == UrSaveRankings(MainThread) /\ StorageAnswered

SiteUrLoadPlayers == UrLoadPlayers(MainThread) /\ StorageAnswered

SiteUrSavePlayers == UrSavePlayers(MainThread) /\ StorageAnswered

\* The store after update_rankings("singles") stored the page of date 1:
\* p1 at rank 1 and p2 at rank 2, both without bio fields.
StoreAfterFirstSync ==
    LET got == scrape_ranking("singles", 1, [ok |-> TRUE, rows |-> SitePage("singles", 1)])
    IN  [f \in Files |->
            IF f = RankingsFile("singles") THEN [exists |-> TRUE, rows |-> got.rankings_df]
            ELSE IF f = PlayersFile THEN [exists |-> TRUE, rows |-> got.players_df]
            ELSE [exists |-> FALSE, rows |-> <<>>]]

\* update_player_bio(num_players=n), called again
RerunUpdatePlayerBio ==
    /\ Free(MainThread)
    /\ runs' = IF runs < MaxRuns THEN runs + 1 ELSE runs
    /\ SetFrame(MainThread,
                [IdleFrame EXCEPT !.pc = "ub_load_players", !.op = "update_player_bio",
                                  !.cap = Some(w_site.num_players), !.outcome = "running",
                                  !.store_at_call = store])
    /\ UNCHANGED <<store, mergeVars, fetchVars, tourVars, restVars>>

SiteUbLoadPlayers == UbLoadPlayers(MainThread) /\ StorageAnswered

SiteUbLoadSingles == UbLoadSingles(MainThread) /\ StorageAnswered

SiteUbLoadDoubles == UbLoadDoubles(MainThread) /\ StorageAnswered

\* UbScrape with the dict the site gives for the player
SiteUbScrape ==
    /\ UbScrape(MainThread)
    /\ LET fetched == run'[MainThread].fetched
           last == fetched[Len(fetched)]
       IN  last.data = w_site.bio[last.player_id]

SiteUbSave == UbSave(MainThread) /\ StorageAnswered

(***************************************************************************)
(* Admin job registry: backend/api/admin.py.  A trigger endpoint makes a   *)
(* job_id from the kind of the update and the time in seconds, hands       *)
(* run_update to the background tasks and returns the job_id; run_update   *)
(* runs on a worker thread after the response.  One action per access of   *)
(* active_jobs or completed_jobs.  The update itself (update_rankings,     *)
(* update_player_bio) is one step that returns or raises.                  *)
(***************************************************************************)
\* The seconds the clock passes through are 0..MaxClock.
MaxClock == 1

\* rankings_{ranking_type}_ and players_, the prefixes of the job ids
JobKinds == {"rankings_singles", "rankings_doubles", "players"}

\* f"{prefix}_{datetime.now().strftime('%Y%m%d_%H%M%S')}"
job_id_of(kind, now) == [prefix |-> kind, stamp |-> now]

NoLookup == [task |-> 0, job_id |-> job_id_of("none", 0), result |-> "none"]

JobsIdle ==
    /\ j_clock = 0
    /\ j_tasks = <<>>
    /\ active_jobs = [id \in {} |-> 0]
    /\ completed_jobs = <<>>
    /\ j_lookup = NoLookup

\* a second passes
Tick ==
    /\ j_clock < MaxClock
    /\ j_clock' = j_clock + 1
    /\ UNCHANGED <<j_tasks, active_jobs, completed_jobs, j_lookup>>
    /\ UNCHANGED <<mergeVars, fetchVars, syncVars, tourVars, readVars, dateVars, intVars,
                   bioVars, siteVars>>

\* lines 94-135, 238-275: the endpoint makes the job_id, adds the background
\* task and returns the job_id
Trigger(kind) ==
    /\ Len(j_tasks) < MaxJobs
    /\ j_tasks' = Append(j_tasks, [job_id |-> job_id_of(kind, j_clock), kind |-> kind,
                                   pc |-> "queued"])
    /\ UNCHANGED <<j_clock, active_jobs, completed_jobs, j_lookup>>
    /\ UNCHANGED <<mergeVars, fetchVars, syncVars, tourVars, readVars, dateVars, intVars,
                   bioVars, siteVars>>

SetTaskPc(i, pc) == j_tasks' = [j_tasks EXCEPT ![i].pc = pc]

\* lines 100-106: active_jobs[job_id] = {"status": "running", ...}
RunStart(i) ==
    /\ i \in DOMAIN j_tasks
    /\ j_tasks[i].pc = "queued"
    /\ active_jobs' = (j_tasks[i].job_id :>
                            [status |-> "running", type |-> j_tasks[i].kind,
                             \* not a key of the entry: the task that wrote it
                             task |-> i]) @@ active_jobs
    /\ SetTaskPc(i, "updating")
    /\ UNCHANGED <<j_clock, completed_jobs, j_lookup>>
    /\ UNCHANGED <<mergeVars, fetchVars, syncVars, tourVars, readVars, dateVars, intVars,
                   bioVars, siteVars>>

\* line 108: count = update_rankings(...), which returns or raises
RunUpdate(i) ==
    /\ i \in DOMAIN j_tasks
    /\ j_tasks[i].pc = "updating"
    /\ \E raised \in BOOLEAN : SetTaskPc(i, IF raised THEN "except" ELSE "returned")
    /\ UNCHANGED <<j_clock, active_jobs, completed_jobs, j_lookup>>
    /\ UNCHANGED <<mergeVars, fetchVars, syncVars, tourVars, readVars, dateVars, intVars,
                   bioVars, siteVars>>

\* lines 110-117: completed_jobs.append({"job_id": job_id, "status": "completed", ...})
RunAppend(i) ==
    /\ i \in DOMAIN j_tasks
    /\ j_tasks[i].pc = "returned"
    /\ completed_jobs' = Append(completed_jobs,
                                [job_id |-> j_tasks[i].job_id, status |-> "completed",
                                 type |-> j_tasks[i].kind, task |-> i])
    /\ SetTaskPc(i, "appended")
    /\ UNCHANGED <<j_clock, active_jobs, j_lookup>>
    /\ UNCHANGED <<mergeVars, fetchVars, syncVars, tourVars, readVars, dateVars, intVars,
                   bioVars, siteVars>>

\* line 119: del active_jobs[job_id]; KeyError, raised inside the try, when
\* the key is gone
RunDelete(i) ==
    /\ i \in DOMAIN j_tasks
    /\ j_tasks[i].pc = "appended"
    /\ IF j_tasks[i].job_id \in DOMAIN active_jobs
       THEN /\ active_jobs' = [id \in DOMAIN active_jobs \ {j_tasks[i].job_id} |->
                                    active_jobs[id]]
            /\ SetTaskPc(i, "done")
       ELSE /\ SetTaskPc(i, "except")
            /\ UNCHANGED active_jobs
    /\ UNCHANGED <<j_clock, completed_jobs, j_lookup>>
    /\ UNCHANGED <<mergeVars, fetchVars, syncVars, tourVars, readVars, dateVars, intVars,
                   bioVars, siteVars>>

\* lines 121-124: except Exception: active_jobs[job_id]["status"] = "failed";
\* KeyError, which nothing catches, when the key is gone
RunExcept(i) ==
    /\ i \in DOMAIN j_tasks
    /\ j_tasks[i].pc = "except"
    /\ IF j_tasks[i].job_id \in DOMAIN active_jobs
       THEN /\ active_jobs' = [active_jobs EXCEPT ![j_tasks[i].job_id].status = "failed"]
            /\ SetTaskPc(i, "failed")
       ELSE /\ SetTaskPc(i, "KeyError")
            /\ UNCHANGED active_jobs
    /\ UNCHANGED <<j_clock, completed_jobs, j_lookup>>
    /\ UNCHANGED <<mergeVars, fetchVars, syncVars, tourVars, readVars, dateVars, intVars,
                   bioVars, siteVars>>

\* lines 294-301: the answer of get_job_status(job_id)
job_status_of(job_id) ==
    IF job_id \in DOMAIN active_jobs THEN active_jobs[job_id].status
    ELSE IF \E k \in 1..Len(completed_jobs) : completed_jobs[k].job_id = job_id
    THEN "completed"
    ELSE "404"

\* lines 289-301: GET /jobs/{job_id} with the job_id a trigger returned
GetJobStatus(i) ==
    /\ i \in DOMAIN j_tasks
    /\ j_lookup' = [task |-> i, job_id |-> j_tasks[i].job_id,
                    result |-> job_status_of(j_tasks[i].job_id)]
    /\ UNCHANGED <<j_clock, j_tasks, active_jobs, completed_jobs>>
    /\ UNCHANGED <<mergeVars, fetchVars, syncVars, tourVars, readVars, dateVars, intVars,
                   bioVars, siteVars>>

RestIdle == ReadIdle /\ DateIdle /\ IntIdle /\ BioFetchIdle /\ SiteIdle /\ JobsIdle

(***************************************************************************)
(* The specifications                                                      *)
(***************************************************************************)
\* max_weeks as the callers pass it: None, or int(sys.argv[2]), any integer
MaxWeeksArgs == {None} \cup {Some(k) : k \in (-1)..MaxCap}

NumPlayersArgs == 1..MaxCap

Step(t) ==
    \/ UrStart(t)
    \/ UrScrape(t)
    \/ UrSaveRankings(t)
    \/ UrLoadPlayers(t)
    \/ UrSavePlayers(t)
    \/ UbLoadPlayers(t)
    \/ UbLoadSingles(t)
    \/ UbLoadDoubles(t)
    \/ UbScrape(t)
    \/ UbSave(t)

Init == MergeIdle /\ FetchIdle /\ SyncIdle /\ TourIdle /\ RestIdle

\* Sync runs one after the other on the main thread (the CLI scripts, the scheduler).
Next ==
    \/ \E ranking_type \in RankingTypes, max_weeks \in MaxWeeksArgs :
            runs < MaxRuns /\ CallUpdateRankings(MainThread, ranking_type, max_weeks)
    \/ \E num_players \in NumPlayersArgs :
            runs < MaxRuns /\ CallUpdatePlayerBio(MainThread, num_players)
    \/ Step(MainThread)

Spec == Init /\ [][Next]_vars

InitMerge == InitMergeVars /\ FetchIdle /\ SyncIdle /\ TourIdle /\ RestIdle

NextMerge == Merge \/ Remerge

SpecMerge == InitMerge /\ [][NextMerge]_vars

NextFetch == FetchCall \/ FetchRequest \/ FetchSleep

SpecFetch == Init /\ [][NextFetch]_vars

\* The admin endpoints (backend/api/admin.py): every accepted request hands its
\* run_update to the worker threads as a background task, whatever runs already.
\* Query(ge=1) keeps max_weeks and num_players positive.
AdminArgs == 1..MaxCap

\* run_update of manual_update_rankings: the job is "completed" when
\* update_rankings returns, whatever the count, and "failed" when it raises.
job_status(fr) == IF fr.outcome = "raised" THEN "failed" ELSE "completed"

NextAdmin ==
    \/ \E t \in Threads, ranking_type \in RankingTypes, max_weeks \in AdminArgs :
            runs < MaxJobs /\ CallUpdateRankings(t, ranking_type, Some(max_weeks))
    \/ \E t \in Threads, num_players \in AdminArgs :
            runs < MaxJobs /\ CallUpdatePlayerBio(t, num_players)
    \/ \E t \in Threads : Step(t)

SpecAdmin == Init /\ [][NextAdmin]_vars

\* The read endpoints, called while one ranking sync fills the store.
NextRead ==
    \/ \E ranking_type \in RankingTypes, max_weeks \in AdminArgs :
            runs < 1 /\ CallUpdateRankings(MainThread, ranking_type, Some(max_weeks))
    \/ UrStart(MainThread)
    \/ UrScrape(MainThread)
    \/ UrSaveRankings(MainThread)
    \/ UrLoadPlayers(MainThread)
    \/ UrSavePlayers(MainThread)
    \/ search_players
    \/ get_players
    \/ get_stored_rankings

SpecRead == Init /\ [][NextRead]_vars

InitDateRange ==
    /\ MergeIdle /\ FetchIdle /\ SyncIdle /\ TourIdle
    /\ ReadIdle /\ InitDateVars /\ IntIdle /\ BioFetchIdle /\ SiteIdle /\ JobsIdle

InitExtractInt ==
    /\ MergeIdle /\ FetchIdle /\ SyncIdle /\ TourIdle
    /\ ReadIdle /\ DateIdle /\ InitIntVars /\ BioFetchIdle /\ SiteIdle /\ JobsIdle

NextBioFetch == BioFetchCall \/ BioFetchRender \/ BioFetchSleep

\* One call of scrape_player, render by render.
SpecBioFetch == Init /\ [][NextBioFetch]_vars

NextExtractInt == ExtractInt

\* _extract_int applied to each cell.
SpecExtractInt == InitExtractInt /\ [][NextExtractInt]_vars

NextDateRange == ParseDateRange

\* _parse_date_range applied to each text of the date cell.
SpecDateRange == InitDateRange /\ [][NextDateRange]_vars

InitRepeatRankings ==
    /\ MergeIdle /\ FetchIdle /\ SyncIdle /\ TourIdle
    /\ ReadIdle /\ DateIdle /\ IntIdle /\ BioFetchIdle /\ JobsIdle
    /\ \E dates \in RemoteDateLists, ok_dates \in SUBSET Dates,
          ranking_type \in RankingTypes, max_weeks \in AdminArgs :
        w_site = [NoSite EXCEPT !.dates = dates, !.ok_dates = ok_dates,
                                !.ranking_type = ranking_type, !.max_weeks = max_weeks]

NextRepeatRankings ==
    \/ RerunUpdateRankings
    \/ SiteUrStart
    \/ SiteUrScrape
    \/ SiteUrSaveRankings
    \/ SiteUrLoadPlayers
    \/ SiteUrSavePlayers

\* update_rankings called again and again with the same cap against a site
\* that does not change.  The scheduler starts the next run when one has
\* ended, and every step of a run ends (the fetch retries are bounded).
SpecRepeatRankings ==
    InitRepeatRankings /\ [][NextRepeatRankings]_vars /\ WF_vars(NextRepeatRankings)

InitRepeatBio ==
    /\ MergeIdle /\ FetchIdle /\ TourIdle
    /\ ReadIdle /\ DateIdle /\ IntIdle /\ BioFetchIdle /\ JobsIdle
    /\ store = StoreAfterFirstSync
    /\ run = [t \in Threads |-> IdleFrame]
    /\ runs = 0
    /\ \E bio \in [PlayerIds -> BioOutcomes], num_players \in NumPlayersArgs :
        w_site = [NoSite EXCEPT !.bio = bio, !.num_players = num_players]

NextRepeatBio ==
    \/ RerunUpdatePlayerBio
    \/ SiteUbLoadPlayers
    \/ SiteUbLoadSingles
    \/ SiteUbLoadDoubles
    \/ SiteUbScrape
    \/ SiteUbSave

\* update_player_bio called again and again with the same num_players against
\* a site that does not change, on the store a first ranking sync left.
SpecRepeatBio == InitRepeatBio /\ [][NextRepeatBio]_vars /\ WF_vars(NextRepeatBio)

RunStep(i) ==
    \/ RunStart(i)
    \/ RunUpdate(i)
    \/ RunAppend(i)
    \/ RunDelete(i)
    \/ RunExcept(i)

NextJobs ==
    \/ Tick
    \/ \E kind \in JobKinds : Trigger(kind)
    \/ \E i \in 1..MaxJobs : RunStart(i)
    \/ \E i \in 1..MaxJobs : RunUpdate(i)
    \/ \E i \in 1..MaxJobs : RunAppend(i)
    \/ \E i \in 1..MaxJobs : RunDelete(i)
    \/ \E i \in 1..MaxJobs : RunExcept(i)
    \/ \E i \in 1..MaxJobs : GetJobStatus(i)

\* Update requests, their background tasks on the worker threads, and status
\* lookups, in any interleaving.
SpecJobs == Init /\ [][NextJobs]_vars

\* The same with the worker threads scheduled: every run_update that can
\* take a step does so in the end.
SpecJobsFair == SpecJobs /\ \A i \in 1..MaxJobs : WF_vars(RunStep(i))

NextTournaments == CallTournamentSync \/ TuScrape \/ TuMerge

\* Tournament syncs one after the other.
SpecTournaments == Init /\ [][NextTournaments]_vars

(***************************************************************************)
(* The claims                                                              *)
(***************************************************************************)
StoredPlayers == store[PlayersFile].rows

\* The frames of the runs of function op that have returned.
ReturnedRuns(op) ==
    {fr \in {run[t] : t \in Threads} : fr.op = op /\ fr.pc = "done" /\ fr.outcome = "returned"}

\* The update that update_player_bio applied to the player, if any.
UpdatesFor(fr, player_id) == {u \in Range(fr.updates) : u.player_id = player_id}

\* C1: the biography sync never reverts a populated bio field to null: a
\* column that was non-null before the run and is null in the scraped update
\* is unchanged after the run, and the non-null incoming fields are written.
C1_BioSyncKeepsPopulatedFields ==
    \A fr \in ReturnedRuns("update_player_bio") :
        fr.result > 0 =>
            \A i \in 1..Len(fr.players_df) :
                LET before == fr.players_df[i]
                    after == StoredPlayers[i]
                IN  \A u \in UpdatesFor(fr, before.player_id) :
                    \A c \in Range(BIO_COLUMNS) \cap DOMAIN u :
                        /\ (before[c] # None /\ u[c] = None) => after[c] = before[c]
                        /\ u[c] # None => after[c] = u[c]

\* C2: the ranking sync merges players name-only: every bio field of a stored
\* player that is non-null before the run is non-null and equal after it.
C2_RankingSyncKeepsBioFields ==
    \A fr \in ReturnedRuns("update_rankings") :
        \A before \in Range(fr.store_at_call[PlayersFile].rows) :
            \A c \in Range(BIO_COLUMNS) :
                before[c] # None =>
                    \E after \in Range(StoredPlayers) :
                        after.player_id = before.player_id /\ after[c] = before[c]

RankingKey == <<"player_id", "date", "type">>

\* C3: the stored ranking table of a type holds at most one row per key
\* (player_id, date, ranking_type).
C3_OneRowPerRankingKey ==
    \A ranking_type \in RankingTypes :
        LET rows == store[RankingsFile(ranking_type)].rows
        IN  \A i, j \in 1..Len(rows) :
                i # j => KeyOf(rows[i], RankingKey) # KeyOf(rows[j], RankingKey)

\* C4: a ranking sync run that ends in a storage error persisted all or
\* nothing: either the ranking table and the player table both hold the run's
\* batch, or the run changed neither of them.
C4_RankingRunAllOrNothing ==
    \A t \in Threads :
        LET fr == run[t]
            rankings_file == RankingsFile(fr.ranking_type)
            rankings_saved == store[rankings_file] # fr.store_at_call[rankings_file]
            players_saved == store[PlayersFile] # fr.store_at_call[PlayersFile]
        IN  (fr.op = "update_rankings" /\ fr.outcome = "raised") =>
                (rankings_saved <=> players_saved)

\* The datasets a run saves.
WritesOf(fr) ==
    IF fr.op = "update_rankings" THEN {RankingsFile(fr.ranking_type), PlayersFile}
    ELSE IF fr.op = "update_player_bio" THEN {PlayersFile}
    ELSE {}

InFlight(t) == run[t].pc \notin {"idle", "done"}

\* A player row that a returned ranking job saved is no longer stored.
C5_LostUpdate ==
    \E fr \in ReturnedRuns("update_rankings") :
        /\ fr.result > 0
        /\ \E r \in Range(fr.new_players) :
            \A stored \in Range(StoredPlayers) : stored.player_id # r.player_id

\* C5: admin-triggered updates are serialized per dataset: no two jobs that
\* write the same dataset are in flight together, and no row saved by a job is
\* lost to the save of a job that loaded the dataset earlier.
C5_AdminJobsSerialized ==
    /\ \A t1, t2 \in Threads :
        (t1 # t2 /\ InFlight(t1) /\ InFlight(t2)) =>
            WritesOf(run[t1]) \cap WritesOf(run[t2]) = {}
    /\ ~C5_LostUpdate

\* The last row of table t with key k.
LastWithKey(t, cols, k) ==
    t[CHOOSE i \in 1..Len(t) :
        KeyOf(t[i], cols) = k /\ \A j \in (i + 1)..Len(t) : KeyOf(t[j], cols) # k]

NoDuplicateKey(t, cols) ==
    \A i, j \in 1..Len(t) : i # j => KeyOf(t[i], cols) # KeyOf(t[j], cols)

\* C6: upsert_data is last-write-wins: the result has exactly one row for
\* every key of existing or new, which is the last row of new with that key
\* when new has the key and the last row of existing with it otherwise, and
\* it has no row that is in neither input.
C6_UpsertLastWriteWins ==
    m_pc # "in" =>
        /\ \A k \in KeysOf(m_existing, m_cols) \cup KeysOf(m_new, m_cols) :
            /\ Cardinality({i \in 1..Len(m_out) : KeyOf(m_out[i], m_cols) = k}) = 1
            /\ \A i \in 1..Len(m_out) :
                KeyOf(m_out[i], m_cols) = k =>
                    m_out[i] = IF k \in KeysOf(m_new, m_cols)
                               THEN LastWithKey(m_new, m_cols, k)
                               ELSE LastWithKey(m_existing, m_cols, k)
        /\ \A i \in 1..Len(m_out) : m_out[i] \in Range(m_existing) \cup Range(m_new)

\* A merge in which new holds a key twice with different rows and existing
\* holds the key with a row other than the last one of new.
C6_Witness ==
    /\ m_pc = "merged"
    /\ \E i \in 1..Len(m_existing), j, k \in 1..Len(m_new) :
        /\ j < k
        /\ KeyOf(m_new[j], m_cols) = KeyOf(m_new[k], m_cols)
        /\ KeyOf(m_existing[i], m_cols) = KeyOf(m_new[k], m_cols)
        /\ m_new[j] # m_new[k]
        /\ m_existing[i] # m_new[k]
        /\ m_out = <<m_new[k]>>

\* C7: merging is idempotent: merging new again into the merged table gives
\* the same set of rows, with no duplicate key and no growth in row count.
C7_UpsertIdempotent ==
    m_pc = "remerged" =>
        /\ Range(m_out2) = Range(m_out)
        /\ Len(m_out2) = Len(m_out)
        /\ NoDuplicateKey(m_out2, m_cols)

\* A second merge of a new table that collides with the existing one.
C7_Witness ==
    /\ m_pc = "remerged"
    /\ Len(m_new) = MaxMergeRows
    /\ KeysOf(m_new, m_cols) \cap KeysOf(m_existing, m_cols) # {}
    /\ KeysOf(m_existing, m_cols) \ KeysOf(m_new, m_cols) # {}
    /\ Len(m_out2) >= 2

\* C8: a player whose stored name is non-null never has a null or empty name
\* afterwards: every stored player row has a name, and a player named when a
\* run was called is still stored and named whatever the run has done since.
C8_NamesNeverLost ==
    /\ \A r \in Range(StoredPlayers) : Truthy(r.player_name)
    /\ \A t \in Threads :
        \A before \in Range(run[t].store_at_call[PlayersFile].rows) :
            before.player_name # None =>
                \E after \in Range(StoredPlayers) :
                    after.player_id = before.player_id /\ Truthy(after.player_name)

\* A ranking run has merged the page on which the name of p1 is empty into a
\* player table in which p1 was named.
C8_Witness ==
    \E fr \in ReturnedRuns("update_rankings") :
        /\ \E r \in Range(fr.store_at_call[PlayersFile].rows) :
            r.player_id = Some("p1") /\ r.player_name = Some("A")
        /\ \E r \in Range(Concat(fr.ranking_frames)) : r.player_id = Some("p1") /\ r.rank = None
        /\ fr.new_players # <<>>
        /\ \E r \in Range(StoredPlayers) : r.player_id = Some("p1") /\ r.player_name = Some("A")

\* C9: fetch_with_retry follows the backoff schedule: after k timeouts and a
\* success it returns the response having slept base^0 .. base^(k-1); after
\* max_retries timeouts it returns failure after max_retries requests and
\* max_retries - 1 sleeps.
C9_BackoffSchedule ==
    f_pc = "done" =>
        LET n == f_max_retries
            m == Len(f_outcomes)
            timed_out(i) == f_outcomes[i] \in {"ReadTimeout", "ConnectTimeout"}
            schedule(k) == [i \in 1..k |-> Pow(RETRY_BACKOFF_BASE, i - 1)]
        IN  /\ m >= 1
            /\ ((\A i \in 1..(m - 1) : timed_out(i)) /\ f_outcomes[m] = "ok") =>
                    /\ m - 1 < n
                    /\ f_result = "response"
                    /\ f_sleeps = schedule(m - 1)
            /\ (\A i \in 1..m : timed_out(i)) =>
                    /\ m = n
                    /\ f_result = "None"
                    /\ f_sleeps = schedule(n - 1)

\* Three attempts: two timeouts, then the response, after sleeps of 1 s and 2 s.
C9_Witness ==
    /\ f_pc = "done"
    /\ f_max_retries = 3
    /\ f_outcomes = <<"ReadTimeout", "ConnectTimeout", "ok">>
    /\ f_sleeps = <<1, 2>>
    /\ f_result = "response"

\* C10: an error that is not a timeout is never retried: the request that
\* ends in an HTTP status error or another error is the last one, the fetch
\* has returned failure, and no sleep followed it.
C10_ErrorsNotRetried ==
    \A i \in 1..Len(f_outcomes) :
        f_outcomes[i] \in {"HTTPStatusError", "Exception"} =>
            /\ i = Len(f_outcomes)
            /\ f_pc = "done"
            /\ f_result = "None"
            /\ Len(f_sleeps) = i - 1

\* A status error on the second of three attempts.
C10_Witness ==
    /\ f_pc = "done"
    /\ f_max_retries = 3
    /\ f_outcomes = <<"ReadTimeout", "HTTPStatusError">>
    /\ f_sleeps = <<1>>
    /\ f_result = "None"

\* The runs of update_rankings on any thread.
RankingRuns == {run[t] : t \in {u \in Threads : run[u].op = "update_rankings"}}

\* The run has left its loop over dates_to_scrape.
LoopDone(fr) ==
    \/ fr.pc \in {"ur_save_rankings", "ur_load_players", "ur_save_players"}
    \/ fr.pc = "done" /\ fr.failed_at # "load_rankings" /\ fr.missing # <<>>

\* The units of a run that gave rows.
Succeeded(fr) == {i \in 1..Len(fr.fetched) : fr.fetched[i].ok}

\* The rows the site lists for a date.
SiteRows(ranking_type, date) ==
    Range(rankings_data(ranking_type, date,
                        [ok |-> TRUE, rows |-> SitePage(ranking_type, date)]))

C12_NoRowsNoWrite ==
    \A fr \in RankingRuns :
        (fr.pc = "done" /\ fr.outcome = "returned" /\ Succeeded(fr) = {}) =>
            /\ fr.result = 0
            /\ store = fr.store_at_call

\* A returned run that attempted a date, got nothing, and found no file to
\* begin with.
C12_Witness ==
    \E fr \in RankingRuns :
        /\ fr.pc = "done" /\ fr.outcome = "returned"
        /\ Len(fr.fetched) >= 1 /\ Succeeded(fr) = {}
        /\ ~fr.store_at_call[RankingsFile(fr.ranking_type)].exists
        /\ ~Exists(RankingsFile(fr.ranking_type))
        /\ fr.result = 0

\* C13: a run of update_rankings that attempted at least one date and got
\* rows for none is reported to the caller as failed, which tells it apart
\* from a run that found nothing missing; and a run is reported failed only
\* then or when the storage layer raised.
C13_ZeroSuccessReportedFailed ==
    \A fr \in RankingRuns :
        fr.pc = "done" =>
            /\ (Len(fr.fetched) >= 1 /\ Succeeded(fr) = {} /\ LoopDone(fr)) =>
                    job_status(fr) = "failed"
            /\ job_status(fr) = "failed" =>
                    \/ Len(fr.fetched) >= 1 /\ Succeeded(fr) = {}
                    \/ fr.outcome = "raised"

\* The dates the remote list names that the stored table of the run's type
\* did not hold when the run was called.
MissingAtCall(fr) ==
    Range(fr.all_dates) \
        {r.date : r \in Range(fr.store_at_call[RankingsFile(fr.ranking_type)].rows)}

MaxOf(S) == CHOOSE x \in S : \A y \in S : x >= y

RECURSIVE MostRecent(_, _)
\* The n most recent dates of S, most recent first.
MostRecent(S, n) ==
    IF n = 0 \/ S = {} THEN <<>> ELSE <<MaxOf(S)>> \o MostRecent(S \ {MaxOf(S)}, n - 1)

\* C14: with max_weeks = k >= 1 and m missing dates, update_rankings fetches
\* exactly the min(k, m) most recent missing dates, most recent first, and no
\* other date.
C14_FetchesMostRecentMissing ==
    \A fr \in RankingRuns :
        (LoopDone(fr) /\ fr.cap # None /\ fr.cap # Some(0) /\ fr.cap # Some(-1)) =>
            [i \in 1..Len(fr.fetched) |-> fr.fetched[i].date]
                = MostRecent(MissingAtCall(fr), fr.cap[1])

\* C15: for every integer max_weeks, 0 included, the run fetches at most
\* max_weeks dates; with no cap (None) it fetches every missing date.
C15_FetchesAtMostCap ==
    \A fr \in RankingRuns :
        LoopDone(fr) =>
            /\ (fr.cap # None /\ fr.cap # Some(-1)) => Len(fr.fetched) <= fr.cap[1]
            /\ fr.cap = None => {fr.fetched[i].date : i \in 1..Len(fr.fetched)} = MissingAtCall(fr)

\* The runs of update_player_bio on any thread.
BioRuns == {run[t] : t \in {u \in Threads : run[u].op = "update_player_bio"}}

\* The player rows stored when the run was called.
PlayersAtCall(fr) == Range(fr.store_at_call[PlayersFile].rows)

\* C16: the biography sync only fills fields that are null: every bio column
\* of every player that was non-null when update_player_bio was called holds
\* the same value afterwards, whatever the scrape returned for it.
C16_BioSyncOnlyFillsNulls ==
    \A fr \in BioRuns :
        \A before \in PlayersAtCall(fr) :
            \A i \in 1..Len(BIO_COLUMNS) :
                before[BIO_COLUMNS[i]] # None =>
                    \E after \in Range(StoredPlayers) :
                        /\ after.player_id = before.player_id
                        /\ after[BIO_COLUMNS[i]] = before[BIO_COLUMNS[i]]

\* The scraped dict holds a value for at least one field.
ObtainedField(data) == \E c \in DOMAIN data : data[c] # None

\* C17: update_player_bio returns the number of selected players for which a
\* non-null bio field was obtained; a player whose fetch failed or whose page
\* gave no field value adds nothing to the count and leaves its stored row
\* as it was; the loop goes on to the next player.
C17_BioCountsPlayersWithFields ==
    \A fr \in BioRuns :
        /\ fr.pc \in {"ub_save", "done"} /\ fr.to_scrape # <<>> =>
            Len(fr.fetched) = Len(fr.to_scrape)
        /\ (fr.pc = "done" /\ fr.outcome = "returned") =>
            /\ fr.result = Cardinality({i \in 1..Len(fr.fetched) : ObtainedField(fr.fetched[i].data)})
            /\ \A i \in 1..Len(fr.fetched) :
                ~ObtainedField(fr.fetched[i].data) =>
                    \A before \in PlayersAtCall(fr) :
                        before.player_id = fr.fetched[i].player_id =>
                            before \in Range(StoredPlayers)

\* The best (lowest) rank a player holds in a ranking table, null if none.
BestRank(table, player_id) ==
    LET ranks == {r.rank[1] : r \in {x \in Range(table) :
                                        x.player_id = player_id /\ x.rank # None}}
    IN  IF ranks = {} THEN None ELSE Some(MinOf(ranks))

\* The best rank of a player, singles before doubles, and the dates on which
\* the player held it.
BestOf(fr, player_id) ==
    LET singles == fr.store_at_call[RankingsFile("singles")].rows
        doubles == fr.store_at_call[RankingsFile("doubles")].rows
        table == IF BestRank(singles, player_id) # None THEN singles ELSE doubles
        best == BestRank(table, player_id)
    IN  [rank |-> best,
         dates |-> {r.date : r \in {x \in Range(table) :
                                        x.player_id = player_id /\ x.rank = best /\ best # None}}]

\* Player a must be scraped before player b: a better rank, or the same rank
\* held more recently.
MustPrecede(fr, a, b) ==
    LET ka == BestOf(fr, a)
        kb == BestOf(fr, b)
    IN  \/ ka.rank # None /\ (kb.rank = None \/ ka.rank[1] < kb.rank[1])
        \/ /\ ka.rank # None /\ ka.rank = kb.rank
           /\ \A da \in ka.dates, db \in kb.dates : da > db

\* The stored players that miss one of the five checked fields.
MissingBioAtCall(fr) ==
    {r.player_id : r \in {x \in PlayersAtCall(fr) :
        \E c \in {"birthdate", "weight_kg", "height_cm", "country", "handedness"} : x[c] = None}}

\* C18: update_player_bio scrapes exactly the first num_players players of
\* the order: players missing one of birthdate, weight_kg, height_cm, country,
\* handedness, by best rank ascending with unranked players last, ties broken
\* by best-rank date descending; a player with all five is never scraped.
C18_BioScrapesTopMissing ==
    \A fr \in BioRuns :
        (fr.pc \in {"ub_scrape", "ub_save"} \/ (fr.pc = "done" /\ fr.outcome = "returned")) =>
            LET chosen == [i \in 1..Len(fr.to_scrape) |-> fr.to_scrape[i].player_id]
                missing == MissingBioAtCall(fr)
            IN  /\ Len(chosen) = IF fr.cap[1] < Cardinality(missing)
                                 THEN fr.cap[1] ELSE Cardinality(missing)
                /\ Range(chosen) \subseteq missing
                /\ \A i, j \in 1..Len(chosen) : i < j =>
                        chosen[i] # chosen[j] /\ ~MustPrecede(fr, chosen[j], chosen[i])
                /\ \A u \in missing \ Range(chosen) :
                        \A i \in 1..Len(chosen) : ~MustPrecede(fr, u, chosen[i])
                /\ fr.pc # "ub_scrape" =>
                        [i \in 1..Len(fr.fetched) |-> fr.fetched[i].player_id] = chosen

\* The entry names no winner: no singles id and no doubles id.
Winnerless(entry) ==
    /\ entry.singles = None \/ entry.singles[1].id = None
    /\ \A i \in 1..Len(entry.doubles) : entry.doubles[i].id = None

\* The record names a winner.
NamesWinner(r) ==
    \/ r.singles_winner_id # None
    \/ r.doubles_winner_ids # None /\ r.doubles_winner_ids # Some(<<>>)

\* C19: every tournament record that scrape_tournaments produces, and so every
\* row of the stored tournament table, has a singles winner or at least one
\* doubles winner; a parsed entry without any winner is left out.
C19_TournamentsHaveWinner ==
    /\ \A r \in t_store.rows : NamesWinner(r)
    /\ \A k \in 1..Len(t_run.new_tournaments) :
        /\ \A r \in Range(t_run.new_tournaments[k]) : NamesWinner(r)
        /\ \A e \in Range(t_run.fetched[k].page.entries) :
            Winnerless(e) =>
                \A r \in Range(t_run.new_tournaments[k]) : r.tournament_name # e.name

\* A finished sync that read a page with an event in progress and a page
\* whose winner links carry no id, and stored the events that have winners.
C19_Witness ==
    /\ t_run.pc = "done" /\ t_run.outcome = "returned"
    /\ \E a, b \in 1..Len(t_run.fetched) :
        /\ EntryUpcoming \in Range(t_run.fetched[a].page.entries)
        /\ EntryBadLinks \in Range(t_run.fetched[b].page.entries)
    /\ Cardinality(t_store.rows) >= 2

\* The rows of table t whose key is k.
RowsWithKey(t, k) == {r \in t : KeyOf(r, TournamentKey) = k}

\* C20: a tournament sync fetches its pairs in year-then-type order; a pair
\* whose fetch fails contributes an empty table; the stored result is the
\* last-write-wins merge by (year, tournament_type, tournament_name,
\* start_date) of the stored table with the rows of the pairs that succeeded,
\* and the stored rows of a failed pair stay as they were.
C20_TournamentSyncUnionOfSuccesses ==
    (t_run.pc = "done" /\ t_run.outcome = "returned" /\ t_run.start_year <= t_run.end_year) =>
        LET fetched == t_run.fetched
            new_df == Concat(t_run.new_tournaments)
            keys == {KeyOf(r, TournamentKey) : r \in t_run.rows_at_call} \cup KeysOf(new_df, TournamentKey)
        IN  /\ \A a, b \in 1..Len(fetched) : a < b => fetched[a].year <= fetched[b].year
            /\ \A y \in t_run.start_year..t_run.end_year :
                LET of_year == SelectSeq(fetched, LAMBDA f : f.year = y)
                IN  [i \in 1..Len(of_year) |-> of_year[i].tournament_type] = t_run.type_list
            /\ \A a \in 1..Len(fetched) : fetched[a].year \in t_run.start_year..t_run.end_year
            /\ \A a \in 1..Len(fetched) :
                ~fetched[a].page.ok => t_run.new_tournaments[a] = <<>>
            /\ \A r \in t_store.rows : KeyOf(r, TournamentKey) \in keys
            /\ \A k \in keys :
                RowsWithKey(t_store.rows, k) =
                    IF k \in KeysOf(new_df, TournamentKey)
                    THEN {LastWithKey(new_df, TournamentKey, k)}
                    ELSE RowsWithKey(t_run.rows_at_call, k)
            /\ \A a \in 1..Len(fetched) :
                (\A b \in 1..Len(fetched) :
                    (fetched[b].year = fetched[a].year
                        /\ fetched[b].tournament_type = fetched[a].tournament_type)
                    => ~fetched[b].page.ok)
                => {r \in t_run.rows_at_call :
                        r.year = fetched[a].year
                        /\ r.tournament_type = fetched[a].tournament_type} \subseteq t_store.rows

\* A sync over two years and two types in which one pair failed and kept its
\* stored row while another pair replaced its stored row by a newer one.
C20_Witness ==
    /\ t_run.pc = "done" /\ t_run.outcome = "returned"
    /\ Len(t_run.fetched) = 4 /\ t_run.type_list[1] # t_run.type_list[2]
    /\ \E a, b \in 1..4 :
        /\ ~t_run.fetched[a].page.ok
        /\ \E r \in t_run.rows_at_call :
            /\ r.year = t_run.fetched[a].year
            /\ r.tournament_type = t_run.fetched[a].tournament_type
            /\ r \in t_store.rows
        /\ t_run.fetched[b].page.ok
        /\ \E r \in t_run.rows_at_call, n \in t_store.rows :
            /\ r.year = t_run.fetched[b].year
            /\ r.tournament_type = t_run.fetched[b].tournament_type
            /\ KeyOf(n, TournamentKey) = KeyOf(r, TournamentKey)
            /\ n # r
            /\ r \notin t_store.rows

\* C21: not-found on load is treated as an empty dataset by every caller: a
\* read endpoint that finds no dataset answers 200 with an empty body, a
\* ranking sync that finds no ranking table goes on with an empty one, and
\* only a storage error other than not-found is surfaced.
C21_NotFoundIsEmpty ==
    /\ r_resp.endpoint # "none" =>
        /\ (r_resp.storage_ok /\ ~r_resp.found) => (r_resp.status = 200 /\ r_resp.body = {})
        /\ r_resp.status = 500 <=> ~r_resp.storage_ok
    /\ \A fr \in RankingRuns :
        /\ (fr.pc # "ur_start" /\ fr.failed_at # "load_rankings"
                /\ ~fr.store_at_call[RankingsFile(fr.ranking_type)].exists) => fr.existing = <<>>
        /\ fr.failed_at \in {"load_rankings", "load_players"} => fr.outcome = "raised"

\* The two digits of the month the word names, null when it names none.
MonthNumber(word) ==
    LET months == <<"January", "February", "March", "April", "May", "June", "July",
                    "August", "September", "October", "November", "December">>
        tens(i) == IF i >= 10 THEN "1" ELSE "0"
        units(i) == CHOOSE d \in Digit :
                        d = <<"0", "1", "2", "3", "4", "5", "6", "7", "8", "9">>[(i % 10) + 1]
    IN  IF \E i \in 1..12 : months[i] = word
        THEN LET i == CHOOSE k \in 1..12 : months[k] = word
             IN  Some(<<tens(i), units(i)>>)
        ELSE None

\* The text reads YYYY-MM-DD.
IsIsoDate(cell) ==
    /\ cell # None
    /\ Len(cell[1]) = 10
    /\ \A i \in 1..10 : IF i \in {5, 8} THEN cell[1][i] = "-" ELSE cell[1][i] \in Digit

\* The date of a day of one or two digits, a month word and a year.
IsoDate(year, word, day) ==
    Some(year \o <<"-">> \o MonthNumber(word)[1] \o <<"-">>
              \o (IF Len(day) = 1 THEN <<"0">> \o day ELSE day))

\* The text follows one of the three patterns: days, month names, years.
FollowsPattern(shape) ==
    /\ shape.kind # "other"
    /\ MonthNumber(shape.m2) # None
    /\ shape.kind = "single" \/ MonthNumber(shape.m1) # None

\* C22: _parse_date_range gives (null, null) or two YYYY-MM-DD dates for
\* every text; a text of the single-month, cross-month or cross-year pattern
\* gives the days, the numbers of the named months and the years of the text;
\* a text of none of the three patterns gives (null, null).
C22_ParseDateRange ==
    d_pc = "parsed" =>
        /\ \/ d_out = NoDates
           \/ IsIsoDate(d_out.start_date) /\ IsIsoDate(d_out.end_date)
        /\ (FollowsPattern(d_shape) /\ Len(d_shape.d1) <= 2 /\ Len(d_shape.d2) <= 2) =>
            LET start_month == IF d_shape.kind = "single" THEN d_shape.m2 ELSE d_shape.m1
                start_year == IF d_shape.kind = "cross_year" THEN d_shape.y1 ELSE d_shape.y2
            IN  /\ d_out.start_date = IsoDate(start_year, start_month, d_shape.d1)
                /\ d_out.end_date = IsoDate(d_shape.y2, d_shape.m2, d_shape.d2)
        /\ ~FollowsPattern(d_shape) => d_out = NoDates

\* The cell text without the surrounding whitespace and the commas.
Bare(cell) == remove_commas(strip(cell[1]))

\* C23: _extract_int returns an integer or null for every cell and never
\* raises; thousands separators are stripped ("1,234" gives 1234), and a lone
\* "-" or an empty text gives null, never zero.
C23_ExtractInt ==
    x_pc = "done" =>
        /\ x_out.raised = "nothing"
        /\ x_out.value = None \/ x_out.value[1] \in Int
        /\ (x_cell # None /\ isdigit(Bare(x_cell))) =>
                x_out.value = Some(DigitsValue(Bare(x_cell)))
        /\ (x_cell = None \/ Bare(x_cell) \in {<<>>, <<"-">>}) => x_out.value = None

\* The dates the stored table of the run's type held when the run was called.
StoredDatesAtCall(fr) ==
    {r.date : r \in Range(fr.store_at_call[RankingsFile(fr.ranking_type)].rows)}

\* C24: update_rankings never fetches a date that the stored ranking table of
\* its type already holds; a run that finds every date of the remote list
\* stored fetches no page, returns 0 and writes nothing.
C24_NeverRefetchesStoredDate ==
    \A fr \in RankingRuns :
        /\ \A i \in 1..Len(fr.fetched) : fr.fetched[i].date \notin StoredDatesAtCall(fr)
        /\ (fr.pc = "done" /\ fr.outcome = "returned"
                /\ Range(fr.all_dates) \subseteq StoredDatesAtCall(fr)) =>
            /\ fr.fetched = <<>>
            /\ fr.result = 0
            /\ store = fr.store_at_call

\* A run that followed the run which stored both remote dates: nothing
\* fetched, 0 returned.
C24_Witness ==
    \E fr \in RankingRuns :
        /\ fr.pc = "done" /\ fr.outcome = "returned"
        /\ Range(fr.all_dates) = Dates
        /\ StoredDatesAtCall(fr) = Dates
        /\ fr.fetched = <<>>
        /\ fr.result = 0
        /\ store = fr.store_at_call

\* C25: in update_player_bio the best_rank of a player is the lowest singles
\* rank when the player has one and the lowest doubles rank otherwise, and
\* best_rank_date is the date of a stored row of that type in which the player
\* held exactly that rank, also when some of the player's rows have no rank.
C25_BestRankAndDate ==
    \A fr \in BioRuns :
        (fr.pc \in {"ub_scrape", "ub_save"} \/ (fr.pc = "done" /\ fr.outcome = "returned")) =>
            \A i \in 1..Len(fr.to_scrape) :
                LET row == fr.to_scrape[i]
                    best == BestOf(fr, row.player_id)
                IN  /\ row.best_rank = best.rank
                    /\ best.rank # None =>
                        /\ row.best_rank_date # None
                        /\ row.best_rank_date[1] \in best.dates

\* C26: scrape_player retries a render timeout with the backoff of the
\* Fetcher and its own budget: with max_retries = n, after the timeout of
\* attempt i < n - 1 it sleeps RETRY_BACKOFF_BASE ** i seconds, and after n
\* timeouts it returns the empty dict without a further sleep.
C26_BioFetchBackoff ==
    /\ \A k \in 1..Len(b_sleeps) :
        /\ b_outcomes[k] = "TimeoutError"
        /\ b_sleeps[k] = Pow(RETRY_BACKOFF_BASE, k - 1)
    /\ b_pc \in {"render", "done"} =>
        Len(b_sleeps) = Cardinality({k \in 1..Len(b_outcomes) :
                                        b_outcomes[k] = "TimeoutError" /\ k < b_max_retries})
    /\ (b_pc = "done" /\ \A k \in 1..Len(b_outcomes) : b_outcomes[k] = "TimeoutError") =>
        /\ Len(b_outcomes) = b_max_retries
        /\ Len(b_sleeps) = b_max_retries - 1
        /\ b_result = BioNothing

\* The stored table of the type holds rows of the date.
DateStored(ranking_type, date) ==
    \E r \in Range(store[RankingsFile(ranking_type)].rows) : r.date = date

\* C27: under repeated update_rankings runs with a fixed cap k >= 1 and an
\* unchanged remote date list, every listed date whose page can be fetched
\* and parsed is eventually stored, also when other dates fail on every run.
C27_NoDateStarves ==
    \A date \in Dates :
        [](date \in Range(w_site.dates) \cap w_site.ok_dates
                => <>DateStored(w_site.ranking_type, date))

\* The stored row of the player misses one of the five checked fields.
MissesBio(player_id) ==
    \E r \in Range(StoredPlayers) :
        /\ r.player_id = player_id
        /\ \E c \in {"birthdate", "weight_kg", "height_cm", "country", "handedness"} :
            r[c] = None

\* The running or last run of update_player_bio has scraped the player.
Scraped(player_id) ==
    \E fr \in BioRuns : \E i \in 1..Len(fr.fetched) : fr.fetched[i].player_id = player_id

\* C28: under repeated update_player_bio runs with a fixed num_players, every
\* player that misses one of the five checked fields and whose page can be
\* fetched is eventually scraped, also when higher-ranked players keep
\* failing or keep missing a field that their page does not provide.
C28_NoPlayerStarves ==
    \A player_id \in PlayerIds :
        []((MissesBio(player_id) /\ w_site.bio[player_id] # BioNothing)
                => <>Scraped(player_id))

\* The tasks that run_update has registered and not yet ended.
Registered(i) == j_tasks[i].pc \in {"updating", "returned", "appended", "except"}

\* C29: every admin-triggered job has its own job id and its own entry of
\* active_jobs, also two jobs of the same kind accepted within one second:
\* no two jobs share an entry, and the end of one job never removes or
\* overwrites the entry of another nor makes its run_update raise.
C29_OwnRegistryEntry ==
    /\ \A i, k \in 1..Len(j_tasks) : i # k => j_tasks[i].job_id # j_tasks[k].job_id
    /\ \A i \in 1..Len(j_tasks) :
        /\ (Registered(i) /\ j_tasks[i].pc # "except") =>
            /\ j_tasks[i].job_id \in DOMAIN active_jobs
            /\ active_jobs[j_tasks[i].job_id].task = i
        /\ j_tasks[i].pc # "KeyError"

\* C30: from the moment a trigger has returned a job_id, a lookup of the id
\* finds the job in exactly one of running, completed and failed: it is
\* never unknown (404) and never both in active_jobs and in completed_jobs.
C30_JobAlwaysFound ==
    /\ j_lookup.result # "404"
    /\ \A i \in 1..Len(j_tasks) :
        LET job_id == j_tasks[i].job_id
            active == job_id \in DOMAIN active_jobs
            completed == \E k \in 1..Len(completed_jobs) : completed_jobs[k].job_id = job_id
        IN  /\ active \/ completed
            /\ ~(active /\ completed)
            /\ job_status_of(job_id) \in {"running", "completed", "failed"}

\* The job of the task is reported completed or failed.
Ended(i) == job_status_of(j_tasks[i].job_id) \in {"completed", "failed"}

\* Every job whose id was returned is in the end reported completed or failed.
C30_JobEventuallyEnds ==
    \A i \in 1..MaxJobs : [](i <= Len(j_tasks) => <>(i <= Len(j_tasks) /\ Ended(i)))

====
